---- MODULE Spec2Model ----
(***************************************************************************)
(* Model of the epydemics scenario simulation engine                       *)
(* (epydemics/models/simulation.py: EpidemicSimulation).                   *)
(*                                                                         *)
(* Floating point values are modelled as extended rationals: a pair        *)
(* <<n, d>> with d > 0 in lowest terms is the number n/d, <<1, 0>> is      *)
(* +Inf, <<-1, 0>> is -Inf and <<0, 0>> is NaN.  The operators follow IEEE *)
(* 754 for the non-finite cases (x/0, Inf-Inf, 0*Inf, comparisons with     *)
(* NaN); rounding and the sign of zero are not modelled.                   *)
(***************************************************************************)
EXTENDS Integers, Sequences, FiniteSets, TLC

VARIABLES
    has_vaccination,   \* engine flag: the forecasting box carries "delta"
    data_last,         \* self.data.iloc[-1]: the last historical record
    forecasting_box,   \* self.forecasting_box: rate -> level -> series
    n_steps,           \* len(self.forecasting_interval)
    simulation,        \* self.simulation: None or ScenarioKey -> (None | trajectory)
    results,           \* self.results: None or compartment -> ResultTable
    pc,                \* position of the caller: "idle" or inside run_simulations
    todo,              \* scenarios the running run_simulations has not yet started
    running,           \* scenarios handed to a worker and not yet written
    n_jobs,            \* n_jobs of the running (or last) run_simulations
    raised,            \* the exception the last call raised, or ""
    sim_seq,           \* the box left by the last completed sequential run
    cells,             \* AggSpec: the scenario cells of one row of a table
    row,               \* AggSpec: None or that row with its aggregates
    simulation_engine, \* Model.simulation_engine is set (forecast() has run)
    model_simulation,  \* Model.simulation: unset (None) or the engine's box
    model_results,     \* Model.results: None or the engine's results
    raw,               \* the observation table and settings of a derivation
    derived,           \* None or the table the derivation returned
    validation,        \* None or the last validate_data call: its table and outcome
    forecasted_logit_ratios_tuple_arrays
                       \* None or the arrays the forecaster returned

\* The attributes of the Model around the engine, and the derivation.
model_state == <<simulation_engine, model_simulation, model_results>>

derivation_state == <<raw, derived>>

\* The steps around the derivation: the validation of a table by a frequency
\* handler, and the forecaster's output.
frontend_state == <<validation, forecasted_logit_ratios_tuple_arrays>>

vars == <<has_vaccination, data_last, forecasting_box, n_steps, simulation,
          results, pc, todo, running, n_jobs, raised, sim_seq,
          cells, row, model_state, derivation_state, frontend_state>>

\* Optional values (Python's None or an object).
None == [is_none |-> TRUE, val |-> <<>>]

Some(v) == [is_none |-> FALSE, val |-> v]

-----------------------------------------------------------------------------
(* Extended rational arithmetic (the float64 values of the arrays).        *)

Abs(n) == IF n < 0 THEN -n ELSE n

Sign(n) == IF n < 0 THEN -1 ELSE IF n > 0 THEN 1 ELSE 0

RECURSIVE GCD(_, _)
GCD(a, b) == IF b = 0 THEN a ELSE GCD(b, a % b)

NaN == <<0, 0>>
PosInf == <<1, 0>>
NegInf == <<-1, 0>>

Norm(n, d) ==
    IF d = 0 THEN <<Sign(n), 0>>
    ELSE LET g == GCD(Abs(n), Abs(d))
             s == Sign(d)
         IN  <<s * (n \div g), s * (d \div g)>>

Q(n, d) == Norm(n, d)

Z(n) == <<n, 1>>

IsNaN(x) == x = NaN

IsFinite(x) == x[2] # 0

IsInf(x) == x[2] = 0 /\ x[1] # 0

RNeg(x) == <<-x[1], x[2]>>

RAdd(x, y) ==
    IF IsNaN(x) \/ IsNaN(y) THEN NaN
    ELSE IF IsInf(x) /\ IsInf(y) THEN (IF x = y THEN x ELSE NaN)
    ELSE IF IsInf(x) THEN x
    ELSE IF IsInf(y) THEN y
    ELSE LET g == GCD(x[2], y[2])
         IN  Norm(x[1] * (y[2] \div g) + y[1] * (x[2] \div g),
                  (x[2] \div g) * y[2])

RSub(x, y) == RAdd(x, RNeg(y))

RMul(x, y) ==
    IF IsNaN(x) \/ IsNaN(y) THEN NaN
    ELSE IF IsInf(x) \/ IsInf(y)
         THEN (IF x[1] = 0 \/ y[1] = 0 THEN NaN
               ELSE <<Sign(x[1]) * Sign(y[1]), 0>>)
    ELSE LET g1 == GCD(Abs(x[1]), y[2])
             g2 == GCD(Abs(y[1]), x[2])
         IN  Norm((x[1] \div g1) * (y[1] \div g2),
                  (x[2] \div g2) * (y[2] \div g1))

\* Mutant of RDiv: 0/0 is healed to 0.
RDiv_ZeroOnZero(x, y) ==
    IF IsNaN(x) \/ IsNaN(y) THEN NaN
    ELSE IF IsInf(y) THEN (IF IsInf(x) THEN NaN ELSE Z(0))
    ELSE IF y[1] = 0 THEN (IF x[1] = 0 THEN Z(0) ELSE <<Sign(x[1]), 0>>)
    ELSE IF IsInf(x) THEN <<Sign(x[1]) * Sign(y[1]), 0>>
    ELSE RMul(x, <<Sign(y[1]) * y[2], Abs(y[1])>>)

RDiv(x, y) ==
    IF IsNaN(x) \/ IsNaN(y) THEN NaN
    ELSE IF IsInf(y) THEN (IF IsInf(x) THEN NaN ELSE Z(0))
    ELSE IF y[1] = 0 THEN <<Sign(x[1]), 0>>
    ELSE IF IsInf(x) THEN <<Sign(x[1]) * Sign(y[1]), 0>>
    ELSE RMul(x, <<Sign(y[1]) * y[2], Abs(y[1])>>)

\* IEEE comparisons: every comparison with NaN is false.
RLe(x, y) ==
    IF IsNaN(x) \/ IsNaN(y) THEN FALSE
    ELSE IF x = y THEN TRUE
    ELSE IF IsInf(x) THEN x = NegInf
    ELSE IF IsInf(y) THEN y = PosInf
    ELSE RSub(y, x)[1] >= 0

REq(x, y) == ~IsNaN(x) /\ ~IsNaN(y) /\ x = y

RLt(x, y) == RLe(x, y) /\ x # y

-----------------------------------------------------------------------------
(* Constants of the package (epydemics/core/constants.py).                 *)

FORECASTING_LEVELS == <<"lower", "point", "upper">>

CENTRAL_TENDENCY_METHODS == <<"mean", "median", "gmean", "hmean">>

RATIOS == <<"alpha", "beta", "gamma">>

\* The rates the engine simulates with: RATIOS, plus delta when the
\* forecasting box carries a vaccination rate.
ActiveRates == IF has_vaccination THEN RATIOS \o <<"delta">> ELSE RATIOS

COMPARTMENTS == <<"A", "C", "S", "I", "R", "D">>

ActiveCompartments ==
    IF has_vaccination THEN COMPARTMENTS \o <<"V">> ELSE COMPARTMENTS

-----------------------------------------------------------------------------
(* simulate_for_given_levels: one trajectory.                              *)

\* The flows of one step and the compartments they lead to, from the
\* current state and rates `cur`.
Flows(cur) ==
    LET new_S == RSub(cur.S, RDiv(RMul(RMul(cur.I, cur.alpha), cur.S), cur.A))
        infection == RDiv(RMul(RMul(cur.I, cur.alpha), cur.S), cur.A)
        recovery == RMul(cur.beta, cur.I)
        death == RMul(cur.gamma, cur.I)
        new_I == RSub(RSub(RAdd(cur.I, infection), recovery), death)
        new_R == RAdd(cur.R, recovery)
        new_D == RAdd(cur.D, death)
        new_C == RAdd(RAdd(new_I, new_R), new_D)
        new_A == RAdd(new_S, new_I)
    IN  [A |-> new_A, C |-> new_C, S |-> new_S, I |-> new_I, R |-> new_R,
         D |-> new_D]

\* One row of the result array: columns A, C, S, I, R, D, alpha, beta, gamma.
Row(new, new_alpha, new_beta, new_gamma) ==
    [A |-> new.A, C |-> new.C, S |-> new.S, I |-> new.I, R |-> new.R,
     D |-> new.D, alpha |-> new_alpha, beta |-> new_beta, gamma |-> new_gamma]

\* Mutants of SimStep.
SimStep_LostRecoveries(cur, new_alpha, new_beta, new_gamma) ==
    Row([Flows(cur) EXCEPT !.R = cur.R], new_alpha, new_beta, new_gamma)

SimStep_DeathsByBeta(cur, new_alpha, new_beta, new_gamma) ==
    Row([Flows(cur) EXCEPT !.D = RAdd(cur.D, RMul(cur.beta, cur.I))],
        new_alpha, new_beta, new_gamma)

SimStep_StaleA(cur, new_alpha, new_beta, new_gamma) ==
    Row([Flows(cur) EXCEPT !.A = cur.A], new_alpha, new_beta, new_gamma)

SimStep_CWithoutD(cur, new_alpha, new_beta, new_gamma) ==
    Row([Flows(cur) EXCEPT !.C = RAdd(Flows(cur).I, Flows(cur).R)],
        new_alpha, new_beta, new_gamma)

SimStep_RecoveryByAlpha(cur, new_alpha, new_beta, new_gamma) ==
    Row([Flows(cur) EXCEPT !.R = RAdd(cur.R, RMul(cur.alpha, cur.I))],
        new_alpha, new_beta, new_gamma)

\* The body of the loop: the new state is stored as row i with the forecast
\* rates of this step, and becomes the current state of the next iteration.
SimStep(cur, new_alpha, new_beta, new_gamma) ==
    Row(Flows(cur), new_alpha, new_beta, new_gamma)

\* The loop body of the engine with vaccination (section 4.4 of the
\* specification): the SIRD flows plus vaccination = delta * S, S -> V.
SimStepV(cur, new_alpha, new_beta, new_gamma, new_delta) ==
    LET infection == RDiv(RMul(RMul(cur.I, cur.alpha), cur.S), cur.A)
        recovery == RMul(cur.beta, cur.I)
        death == RMul(cur.gamma, cur.I)
        vaccination == RMul(cur.delta, cur.S)
        new_S == RSub(RSub(cur.S, infection), vaccination)
        new_I == RSub(RSub(RAdd(cur.I, infection), recovery), death)
        new_R == RAdd(cur.R, recovery)
        new_D == RAdd(cur.D, death)
        new_V == RAdd(cur.V, vaccination)
        new_C == RAdd(RAdd(new_I, new_R), new_D)
        new_A == RAdd(new_S, new_I)
    IN  [A |-> new_A, C |-> new_C, S |-> new_S, I |-> new_I, R |-> new_R,
         D |-> new_D, V |-> new_V, alpha |-> new_alpha, beta |-> new_beta,
         gamma |-> new_gamma, delta |-> new_delta]

\* Mutant of SimLoop: the forecast rates of step i already drive the
\* transition that produces row i.
RECURSIVE SimLoop_RatesEarly(_, _, _, _, _, _)
SimLoop_RatesEarly(cur, box, levels, n, i, rows) ==
    IF i > n THEN rows
    ELSE LET early == [r \in DOMAIN cur |->
                          IF r \in DOMAIN box
                          THEN box[r][levels[CHOOSE j \in 1..Len(levels) :
                                                (RATIOS \o <<"delta">>)[j] = r]][i]
                          ELSE cur[r]]
             new == IF "delta" \in DOMAIN box
                    THEN SimStepV(early, early.alpha, early.beta, early.gamma,
                                  early.delta)
                    ELSE SimStep(early, early.alpha, early.beta, early.gamma)
         IN  SimLoop_RatesEarly(new, box, levels, n, i + 1, Append(rows, new))

\* for i in range(n_steps): rows 1..n of the result array.
RECURSIVE SimLoop(_, _, _, _, _, _)
SimLoop(cur, box, levels, n, i, rows) ==
    IF i > n THEN rows
    ELSE LET new == IF "delta" \in DOMAIN box
                    THEN SimStepV(cur,
                                  box["alpha"][levels[1]][i],
                                  box["beta"][levels[2]][i],
                                  box["gamma"][levels[3]][i],
                                  box["delta"][levels[4]][i])
                    ELSE SimStep(cur,
                                 box["alpha"][levels[1]][i],
                                 box["beta"][levels[2]][i],
                                 box["gamma"][levels[3]][i])
         IN  SimLoop(new, box, levels, n, i + 1, Append(rows, new))

\* The trajectory of one scenario from explicit inputs: the initial state
\* and rates are those of the last historical record.
Simulate(last_hist, box, n, levels) ==
    SimLoop(last_hist, box, levels, n, 1, <<>>)

simulate_for_given_levels(simulation_levels) ==
    Simulate(data_last, forecasting_box, n_steps, simulation_levels)

-----------------------------------------------------------------------------
(* Scenario enumeration and the simulation box.                            *)

\* Mutant of LevelsProduct: the first position varies fastest.
RECURSIVE LevelsProduct_FirstFastest(_)
LevelsProduct_FirstFastest(k) ==
    IF k = 0 THEN << <<>> >>
    ELSE LET rest == LevelsProduct_FirstFastest(k - 1)
             With(l) == [j \in 1..Len(rest) |-> rest[j] \o <<l>>]
         IN  With(FORECASTING_LEVELS[1]) \o With(FORECASTING_LEVELS[2])
               \o With(FORECASTING_LEVELS[3])

\* itertools.product(FORECASTING_LEVELS, ..., FORECASTING_LEVELS), k factors:
\* the sequence of k-tuples in lexicographic order, last position fastest.
RECURSIVE LevelsProduct(_)
LevelsProduct(k) ==
    IF k = 0 THEN << <<>> >>
    ELSE LET rest == LevelsProduct(k - 1)
             With(l) == [j \in 1..Len(rest) |-> <<l>> \o rest[j]]
         IN  With(FORECASTING_LEVELS[1]) \o With(FORECASTING_LEVELS[2])
               \o With(FORECASTING_LEVELS[3])

ScenarioKeys == LevelsProduct(Len(ActiveRates))

Range(s) == {s[j] : j \in 1..Len(s)}

\* Mutant of create_simulation_box: the slots start as empty trajectories.
create_simulation_box_Prefilled ==
    [key \in {LevelsProduct(Len(ActiveRates))[j] :
                  j \in 1..Len(LevelsProduct(Len(ActiveRates)))} |-> Some(<<>>)]

\* create_simulation_box: every slot of the nested Box is None.  The nested
\* Box simulation[a][b][c] is the function simulation[<<a, b, c>>].
create_simulation_box == [key \in Range(ScenarioKeys) |-> None]

-----------------------------------------------------------------------------
(* create_results_dataframe: the ResultTable of one compartment.           *)
(* A DataFrame is the sequence of its columns, each [name, values].  The   *)
(* cell of an aggregate column is the term <<"agg", fn, inputs>>: fn       *)
(* applied to the cells, in the same row, of the columns the frame held    *)
(* when it was computed (inputs names them); Eval gives its value.         *)

\* Mutant of column_name: the column is named by its first level alone.
column_name_FirstLevelOnly(key) == key[1]

\* f"{logit_alpha_level}|{logit_beta_level}|{logit_gamma_level}"
RECURSIVE column_name(_)
column_name(key) ==
    IF Len(key) = 1 THEN key[1]
    ELSE key[1] \o "|" \o column_name(Tail(key))

ColumnNames(df) == [c \in 1..Len(df) |-> df[c].name]

\* df[name] = values: replaces the column of that name or appends one.
SetColumn(df, name, values) ==
    IF \E c \in 1..Len(df) : df[c].name = name
    THEN [c \in 1..Len(df) |->
            IF df[c].name = name THEN [name |-> name, values |-> values]
            ELSE df[c]]
    ELSE Append(df, [name |-> name, values |-> values])

\* The cell of row i in the column of that name.
CellOf(df, name, i) == df[CHOOSE c \in 1..Len(df) : df[c].name = name].values[i]

\* df[fn] = df.<fn>(axis=1) / df.apply(<fn>, axis=1): row-wise over all the
\* columns the frame holds now.
WithAggregate(df, fn, n) ==
    SetColumn(df, fn, [i \in 1..n |-> <<"agg", fn, ColumnNames(df)>>])

\* The four aggregate assignments, in the order of the code.
AddCentralTendencies(df, n) ==
    LET df1 == WithAggregate(df, "mean", n)
        df2 == WithAggregate(df1, "median", n)
        df3 == WithAggregate(df2, "gmean", n)
        df4 == WithAggregate(df3, "hmean", n)
    IN  df4

\* Mutant of ScenarioColumns: non-finite cells are filled with 0.
ScenarioColumns_ZeroFilled(sim, keys, compartment, n) ==
    [c \in 1..Len(keys) |->
        [name   |-> column_name(keys[c]),
         values |-> [i \in 1..n |->
                       IF IsFinite(sim[keys[c]].val[i][compartment])
                       THEN sim[keys[c]].val[i][compartment]
                       ELSE Z(0)]]]

\* The loop over itertools.product, one assignment df[column_name] = values
\* per scenario, in order, on an empty frame: a name's first assignment
\* appends its column and a later one replaces the values, so the frame
\* holds the names in the order of their first assignment, each with the
\* values of its last.
ScenarioColumns(sim, keys, compartment, n) ==
    LET names == [j \in 1..Len(keys) |-> column_name(keys[j])]
        appends == {j \in 1..Len(keys) : \A h \in 1..(j - 1) : names[h] # names[j]}
        first(c) == CHOOSE j \in appends :
                        Cardinality({h \in appends : h < j}) = c - 1
        last(name) == CHOOSE j \in 1..Len(keys) :
                        /\ names[j] = name
                        /\ \A h \in (j + 1)..Len(keys) : names[h] # name
    IN  [c \in 1..Cardinality(appends) |->
            [name   |-> names[first(c)],
             values |-> [i \in 1..n |->
                           sim[keys[last(names[first(c)])]].val[i][compartment]]]]

create_results_dataframe(compartment) ==
    AddCentralTendencies(
        ScenarioColumns(simulation.val, ScenarioKeys, compartment, n_steps),
        n_steps)

-----------------------------------------------------------------------------
(* The values of the aggregate cells: pandas mean and median (NaN cells    *)
(* skipped), scipy.stats gmean and hmean.                                  *)

IsTerm(x) == Len(x) = 3

RECURSIVE SumSeq(_)
SumSeq(xs) == IF xs = <<>> THEN Z(0) ELSE RAdd(Head(xs), SumSeq(Tail(xs)))

RECURSIVE ProdSeq(_)
ProdSeq(xs) == IF xs = <<>> THEN Z(1) ELSE RMul(Head(xs), ProdSeq(Tail(xs)))

NotNaN(x) == ~IsNaN(x)

\* Insertion of x into the ascending sequence xs.
RECURSIVE Insert(_, _)
Insert(x, xs) ==
    IF xs = <<>> THEN <<x>>
    ELSE IF RLe(x, Head(xs)) THEN <<x>> \o xs
    ELSE <<Head(xs)>> \o Insert(x, Tail(xs))

RECURSIVE Sorted(_)
Sorted(xs) == IF xs = <<>> THEN <<>> ELSE Insert(Head(xs), Sorted(Tail(xs)))

\* DataFrame.mean(axis=1): the mean of the cells that are not NaN.
Mean(xs) ==
    LET kept == SelectSeq(xs, NotNaN)
    IN  IF kept = <<>> THEN NaN ELSE RDiv(SumSeq(kept), Z(Len(kept)))

\* DataFrame.median(axis=1): the median of the cells that are not NaN.
Median(xs) ==
    LET kept == Sorted(SelectSeq(xs, NotNaN))
        m == Len(kept)
    IN  IF m = 0 THEN NaN
        ELSE IF m % 2 = 1 THEN kept[(m + 1) \div 2]
        ELSE RDiv(RAdd(kept[m \div 2], kept[m \div 2 + 1]), Z(2))

\* r^n, or cap + 1 as soon as the power exceeds cap.
RECURSIVE PowCapped(_, _, _)
PowCapped(r, n, cap) ==
    IF n = 0 THEN 1
    ELSE LET q == PowCapped(r, n - 1, cap)
         IN  IF q > cap THEN cap + 1
             ELSE IF r # 0 /\ q > cap \div r THEN cap + 1
             ELSE q * r

\* The integer n-th root of p >= 0 when p is a perfect n-th power, else -1.
IRoot(p, n) ==
    IF \E r \in 0..p : PowCapped(r, n, p) = p
    THEN CHOOSE r \in 0..p : PowCapped(r, n, p) = p
    ELSE -1

\* The n-th root of the positive rational x: a rational when both terms are
\* perfect powers, else the irrational number <<"root", n, x>>.
Root(x, n) ==
    LET rn == IRoot(x[1], n)
        rd == IRoot(x[2], n)
    IN  IF rn >= 0 /\ rd >= 0 THEN Q(rn, rd) ELSE <<"root", n, x>>

\* scipy.stats.gmean: exp(mean(log(a))).
GMean(xs) ==
    LET neg == \E j \in 1..Len(xs) : RLt(xs[j], Z(0))
        nan == \E j \in 1..Len(xs) : IsNaN(xs[j])
        zero == \E j \in 1..Len(xs) : xs[j] = Z(0)
        inf == \E j \in 1..Len(xs) : xs[j] = PosInf
    IN  IF nan \/ neg \/ (zero /\ inf) THEN NaN
        ELSE IF zero THEN Z(0)
        ELSE IF inf THEN PosInf
        ELSE Root(ProdSeq(xs), Len(xs))

\* scipy.stats.hmean: len(a) / sum(1 / a), undefined for negative input.
HMean(xs) ==
    LET neg == \E j \in 1..Len(xs) : RLt(xs[j], Z(0))
        nan == \E j \in 1..Len(xs) : IsNaN(xs[j])
    IN  IF nan \/ neg THEN NaN
        ELSE RDiv(Z(Len(xs)),
                  SumSeq([j \in 1..Len(xs) |-> RDiv(Z(1), xs[j])]))

\* The value of the cell of row i of frame df: a number, or a term left
\* unevaluated because one of its inputs is irrational.
RECURSIVE Eval(_, _, _)
Eval(df, i, cell) ==
    IF ~IsTerm(cell) THEN cell
    ELSE IF cell[1] = "root" THEN cell
    ELSE LET args == [j \in 1..Len(cell[3]) |->
                         Eval(df, i, CellOf(df, cell[3][j], i))]
             fn == cell[2]
         IN  IF \E j \in 1..Len(args) : IsTerm(args[j])
             THEN <<"agg", fn, args>>
             ELSE IF fn = "mean" THEN Mean(args)
             ELSE IF fn = "median" THEN Median(args)
             ELSE IF fn = "gmean" THEN GMean(args)
             ELSE HMean(args)

-----------------------------------------------------------------------------
(* Bounds and inputs.                                                      *)

\* The longest forecasting interval explored.
Horizon == 2

\* The largest worker pool explored.
MaxJobs == 2

\* Last historical records.  HistA is the record of the worked example
\* (S=900, I=100, A=1000, alpha=0.2, beta=0.1, gamma=0.01), which runs for
\* one step (its exact values outgrow the integers of the checker after
\* three); HistZero has
\* beta = gamma = 0; HistDegenerate has I = 0 and A = 0; HistFixture is
\* inconsistent (A # S + I, C # I + R + D) like the fixtures of the tests;
\* HistHot has beta + gamma > 1.
HistA ==
    [S |-> Z(900), I |-> Z(100), R |-> Z(0), D |-> Z(0), A |-> Z(1000),
     C |-> Z(100), alpha |-> Q(1, 5), beta |-> Q(1, 10), gamma |-> Q(1, 100)]

HistSmall ==
    [S |-> Z(6), I |-> Z(2), R |-> Z(1), D |-> Z(1), A |-> Z(8),
     C |-> Z(4), alpha |-> Q(1, 2), beta |-> Q(1, 4), gamma |-> Q(1, 4)]

HistZero ==
    [S |-> Z(6), I |-> Z(2), R |-> Z(1), D |-> Z(1), A |-> Z(8),
     C |-> Z(4), alpha |-> Q(1, 2), beta |-> Z(0), gamma |-> Z(0)]

HistDegenerate ==
    [S |-> Z(0), I |-> Z(0), R |-> Z(7), D |-> Z(1), A |-> Z(0),
     C |-> Z(8), alpha |-> Q(1, 2), beta |-> Q(1, 4), gamma |-> Q(1, 4)]

HistFixture ==
    [S |-> Z(6), I |-> Z(2), R |-> Z(1), D |-> Z(1), A |-> Z(10),
     C |-> Z(5), alpha |-> Q(1, 2), beta |-> Q(1, 4), gamma |-> Q(1, 4)]

HistHot ==
    [S |-> Z(6), I |-> Z(2), R |-> Z(1), D |-> Z(1), A |-> Z(8),
     C |-> Z(4), alpha |-> Q(1, 4), beta |-> Q(3, 4), gamma |-> Q(1, 2)]

\* HistEmptyS has S = I = 0 with A > 0 (A # S + I); HistNoA has A = 0 with
\* S > 0 and I > 0, so that its infection term is x/0 with x > 0.
HistEmptyS ==
    [S |-> Z(0), I |-> Z(0), R |-> Z(7), D |-> Z(1), A |-> Z(5),
     C |-> Z(8), alpha |-> Q(1, 2), beta |-> Q(1, 4), gamma |-> Q(1, 4)]

HistNoA ==
    [S |-> Z(6), I |-> Z(2), R |-> Z(1), D |-> Z(1), A |-> Z(0),
     C |-> Z(4), alpha |-> Q(1, 2), beta |-> Q(1, 4), gamma |-> Q(1, 4)]

Histories ==
    {HistA, HistSmall, HistZero, HistDegenerate, HistFixture, HistHot,
     HistEmptyS, HistNoA}

WithV(h, v, delta) ==
    [x \in DOMAIN h \cup {"V", "delta"} |->
        IF x = "V" THEN v ELSE IF x = "delta" THEN delta ELSE h[x]]

HistoriesV == {WithV(HistSmall, Z(2), Q(1, 4))}

\* A forecast series of n steps that repeats the pattern.
Series(pattern, n) == [i \in 1..n |-> pattern[((i - 1) % Len(pattern)) + 1]]

\* The forecasts of one rate: per level, a pattern of rates in [0, 1].
\* ProfileFlat is constant in time with a zero lower level; ProfileWave
\* varies in time and has upper values that sum to more than 1.
ProfileFlat ==
    [lower |-> <<Z(0)>>, point |-> <<Q(1, 4)>>, upper |-> <<Q(1, 2)>>]

ProfileWave ==
    [lower |-> <<Q(1, 4), Z(0)>>, point |-> <<Q(1, 2), Q(1, 4)>>,
     upper |-> <<Q(3, 4), Q(1, 2)>>]

Profiles == {ProfileFlat, ProfileWave}

BoxOf(profiles, n) ==
    [r \in DOMAIN profiles |->
        [l \in Range(FORECASTING_LEVELS) |-> Series(profiles[r][l], n)]]

\* The engine constructed on its own, as the tests do: no Model holds it.
NoModel ==
    /\ simulation_engine = FALSE
    /\ model_simulation = None
    /\ model_results = None

NoDerivation == raw = None /\ derived = None

NoFrontend == validation = None /\ forecasted_logit_ratios_tuple_arrays = None

Init ==
    /\ has_vaccination \in BOOLEAN
    /\ data_last \in (IF has_vaccination THEN HistoriesV ELSE Histories)
    /\ n_steps = IF data_last = HistA THEN 1 ELSE Horizon
    /\ \E profiles \in [Range(ActiveRates) -> Profiles] :
          /\ profiles["beta"] = profiles["gamma"]
          /\ has_vaccination => profiles["delta"] = profiles["alpha"]
          /\ forecasting_box = BoxOf(profiles, n_steps)
    /\ simulation = None
    /\ results = None
    /\ pc = "idle"
    /\ todo = <<>>
    /\ running = {}
    /\ n_jobs = 1
    /\ raised = ""
    /\ sim_seq = None
    /\ cells = <<>>
    /\ row = None
    /\ NoModel /\ NoDerivation /\ NoFrontend

inputs == <<has_vaccination, data_last, forecasting_box, n_steps, cells, row>>

-----------------------------------------------------------------------------
(* The operations of the engine.                                           *)

\* run_simulations(), sequential: create_simulation_box(), then the loop
\* over itertools.product starts.
RunSimulations ==
    /\ pc = "idle"
    /\ simulation' = Some(create_simulation_box)
    /\ todo' = ScenarioKeys
    /\ running' = {}
    /\ n_jobs' = 1
    /\ pc' = "running"
    /\ raised' = ""
    /\ UNCHANGED <<inputs, results, sim_seq>>
    /\ UNCHANGED <<model_state, derivation_state, frontend_state>>

\* Mutant of SimulateNext: the last row of the scenario becomes the record
\* the next scenario starts from.
SimulateNext_CarriesState ==
    /\ pc = "running"
    /\ n_jobs = 1
    /\ todo # <<>>
    /\ LET current_levels == Head(todo)
           current_simulation == simulate_for_given_levels(current_levels)
           box == [simulation.val EXCEPT ![current_levels] = Some(current_simulation)]
       IN  /\ simulation' = Some(box)
           /\ todo' = Tail(todo)
           /\ pc' = IF Tail(todo) = <<>> THEN "idle" ELSE "running"
           /\ sim_seq' = IF Tail(todo) = <<>> THEN Some(box) ELSE sim_seq
           /\ data_last' = current_simulation[Len(current_simulation)]
    /\ UNCHANGED <<has_vaccination, forecasting_box, n_steps, cells, row,
                   results, running, n_jobs, raised>>
    /\ UNCHANGED <<model_state, derivation_state, frontend_state>>

\* One iteration of the loop of run_simulations: the next scenario of the
\* product is simulated and stored in its slot; after the last one the
\* call returns.
SimulateNext ==
    /\ pc = "running"
    /\ n_jobs = 1
    /\ todo # <<>>
    /\ LET current_levels == Head(todo)
           current_simulation == simulate_for_given_levels(current_levels)
           box == [simulation.val EXCEPT ![current_levels] = Some(current_simulation)]
       IN  /\ simulation' = Some(box)
           /\ todo' = Tail(todo)
           /\ pc' = IF Tail(todo) = <<>> THEN "idle" ELSE "running"
           /\ sim_seq' = IF Tail(todo) = <<>> THEN Some(box) ELSE sim_seq
    /\ UNCHANGED <<inputs, results, running, n_jobs, raised>>
    /\ UNCHANGED <<model_state, derivation_state, frontend_state>>

\* self.simulation[...] while self.simulation is None.
TypeErrorNone == "TypeError: 'NoneType' object is not subscriptable"

\* generate_result(): a fresh Box, then one ResultTable per compartment.
\* Before any run self.simulation is None and the first table raises.
GenerateResult ==
    /\ pc = "idle"
    /\ IF simulation.is_none
       THEN /\ results' = Some(<<>>)
            /\ raised' = TypeErrorNone
       ELSE /\ results' = Some([c \in Range(ActiveCompartments) |->
                                   create_results_dataframe(c)])
            /\ raised' = ""
    /\ UNCHANGED <<inputs, simulation, pc, todo, running, n_jobs, sim_seq>>
    /\ UNCHANGED <<model_state, derivation_state, frontend_state>>

\* The box the loop of run_simulations leaves when it runs the scenarios
\* `keys` on `box`: the slot of each of them holds its trajectory (the same
\* at every iteration that assigns it), every other slot is as it was.
run_simulations(keys, box) ==
    [key \in DOMAIN box |->
        IF key \in Range(keys) THEN Some(simulate_for_given_levels(key))
        ELSE box[key]]

Next == RunSimulations \/ SimulateNext \/ GenerateResult

Spec == Init /\ [][Next]_vars

-----------------------------------------------------------------------------
(* run_simulations(n_jobs) with n_jobs > 1: the worker pool of sections    *)
(* 4.5 and 5 of the specification.  The scenarios are submitted in         *)
(* enumeration order; at most n_jobs are in progress; a scenario's slot is *)
(* written when its trajectory is complete, in completion order.           *)

RunSimulationsParallel(jobs) ==
    /\ pc = "idle"
    /\ jobs > 1
    /\ simulation' = Some(create_simulation_box)
    /\ todo' = ScenarioKeys
    /\ running' = {}
    /\ n_jobs' = jobs
    /\ pc' = "running"
    /\ raised' = ""
    /\ UNCHANGED <<inputs, results, sim_seq>>
    /\ UNCHANGED <<model_state, derivation_state, frontend_state>>

\* A free worker takes the next submitted scenario, with a copy of the last
\* historical record and of the forecasts.
WorkerTake ==
    /\ pc = "running"
    /\ n_jobs > 1
    /\ todo # <<>>
    /\ Cardinality(running) < n_jobs
    /\ running' = running \cup {Head(todo)}
    /\ todo' = Tail(todo)
    /\ UNCHANGED <<inputs, simulation, results, pc, n_jobs, raised, sim_seq>>
    /\ UNCHANGED <<model_state, derivation_state, frontend_state>>

\* Mutant of ResultSlot: results are stored in completion order, in the
\* first slot that is still empty.
ResultSlot_ByCompletion(key) ==
    ScenarioKeys[CHOOSE j \in 1..Len(ScenarioKeys) :
                    /\ simulation.val[ScenarioKeys[j]].is_none
                    /\ \A h \in 1..(j - 1) : ~simulation.val[ScenarioKeys[h]].is_none]

\* The slot a finished scenario is written to.
ResultSlot(key) == key

\* A worker finishes its scenario: the trajectory is written to the slot of
\* that scenario; the call returns when nothing is left.
WorkerFinish(key) ==
    /\ pc = "running"
    /\ key \in running
    /\ simulation' = Some([simulation.val EXCEPT ![ResultSlot(key)] =
                              Some(Simulate(data_last, forecasting_box, n_steps, key))])
    /\ running' = running \ {key}
    /\ pc' = IF todo = <<>> /\ running = {key} THEN "idle" ELSE "running"
    /\ UNCHANGED <<inputs, results, todo, n_jobs, raised, sim_seq>>
    /\ UNCHANGED <<model_state, derivation_state, frontend_state>>

\* The pool is explored on the SIRD engine, from one history and the boxes
\* whose rates share one profile.
ParInit ==
    /\ Init
    /\ ~has_vaccination
    /\ data_last = HistSmall
    /\ n_steps = Horizon
    /\ \E p \in Profiles :
          forecasting_box = BoxOf([r \in Range(ActiveRates) |-> p], n_steps)

ParNext ==
    \/ RunSimulations
    \/ SimulateNext
    \/ \E jobs \in 2..MaxJobs : RunSimulationsParallel(jobs)
    \/ WorkerTake
    \/ \E key \in running : WorkerFinish(key)

ParSpec == ParInit /\ [][ParNext]_vars

-----------------------------------------------------------------------------
(* The aggregates of one row as a function of its scenario cells: the      *)
(* assignments of create_results_dataframe applied to a one-row frame.     *)

\* The most scenario columns of the one-row frames explored.
MaxCols == 3

AggValues == {Z(1), Z(2), Z(4), Q(1, 2)}

AggInputs == UNION {[1..m -> AggValues] : m \in 1..MaxCols}

\* The frame of one row whose scenario columns hold the cells, named as
\* the first scenarios of the product are.
OneRowFrame(cs) ==
    [c \in 1..Len(cs) |->
        [name |-> column_name(LevelsProduct(Len(RATIOS))[c]), values |-> <<cs[c]>>]]

AggInit ==
    /\ has_vaccination = FALSE
    /\ data_last = HistSmall
    /\ n_steps = 1
    /\ forecasting_box = BoxOf([r \in Range(RATIOS) |-> ProfileFlat], n_steps)
    /\ simulation = None
    /\ results = None
    /\ pc = "idle"
    /\ todo = <<>>
    /\ running = {}
    /\ n_jobs = 1
    /\ raised = ""
    /\ sim_seq = None
    /\ cells \in AggInputs
    /\ row = None
    /\ NoModel /\ NoDerivation /\ NoFrontend

\* The row of the ResultTable: name and value of every column.
Aggregate ==
    /\ row.is_none
    /\ LET df == AddCentralTendencies(OneRowFrame(cells), 1)
       IN  row' = Some([c \in 1..Len(df) |->
                          [name |-> df[c].name, value |-> Eval(df, 1, df[c].values[1])]])
    /\ UNCHANGED <<has_vaccination, data_last, forecasting_box, n_steps, cells,
                   simulation, results, pc, todo, running, n_jobs, raised,
                   sim_seq>>
    /\ UNCHANGED <<model_state, derivation_state, frontend_state>>

AggNext == Aggregate

AggSpec == AggInit /\ [][AggNext]_vars

-----------------------------------------------------------------------------
(* The Model around the engine (epydemics/models/sird.py): forecast()      *)
(* constructs the engine, run_simulations() and generate_result() call it  *)
(* and copy its simulation and results to the Model.  A call is one        *)
(* action; the forecasts are those the fitted forecaster gives for the     *)
(* data, the same at every call of forecast().                             *)

RuntimeErrorNoForecast ==
    "RuntimeError: Forecast must be generated before simulating epidemic."

RuntimeErrorNoSimulation ==
    "RuntimeError: Forecast and simulation must be generated before generating results."

\* The error of the engine's run_simulations(n_jobs) for n_jobs < 1.
ValueErrorJobs == "ValueError: n_jobs must be >= 1"

\* Model.forecast: a new engine on the data and the forecasts, with no
\* simulation and no results.
Model_forecast ==
    /\ simulation_engine' = TRUE
    /\ simulation' = None
    /\ results' = None
    /\ raised' = ""
    /\ UNCHANGED <<inputs, pc, todo, running, n_jobs, sim_seq, model_simulation,
                   model_results, derivation_state, frontend_state>>

\* Mutant of Model_run_simulations: the failing call resets the results.
Model_run_simulations_ClearsResults(jobs) ==
    /\ IF ~simulation_engine
       THEN /\ raised' = RuntimeErrorNoForecast
            /\ model_results' = Some(<<>>)
            /\ UNCHANGED <<simulation, model_simulation, n_jobs>>
       ELSE /\ simulation' = Some(run_simulations(ScenarioKeys, create_simulation_box))
            /\ model_simulation' = simulation'
            /\ model_results' = results
            /\ n_jobs' = jobs
            /\ raised' = ""
    /\ UNCHANGED <<inputs, results, pc, todo, running, sim_seq, simulation_engine,
                   derivation_state, frontend_state>>

\* Model.run_simulations(n_jobs): RuntimeError without an engine; the engine
\* rejects n_jobs < 1 before it creates its box; otherwise the engine runs
\* every scenario and the Model takes the engine's simulation and results.
Model_run_simulations(jobs) ==
    /\ IF ~simulation_engine
       THEN /\ raised' = RuntimeErrorNoForecast
            /\ UNCHANGED <<simulation, model_simulation, model_results, n_jobs>>
       ELSE IF jobs < 1
       THEN /\ raised' = ValueErrorJobs
            /\ UNCHANGED <<simulation, model_simulation, model_results, n_jobs>>
       ELSE /\ simulation' = Some(run_simulations(ScenarioKeys, create_simulation_box))
            /\ model_simulation' = simulation'
            /\ model_results' = results
            /\ n_jobs' = jobs
            /\ raised' = ""
    /\ UNCHANGED <<inputs, results, pc, todo, running, sim_seq, simulation_engine,
                   derivation_state, frontend_state>>

\* Model.generate_result: RuntimeError without an engine; otherwise the
\* engine's generate_result, whose results the Model takes when it returns.
Model_generate_result ==
    /\ IF ~simulation_engine
       THEN /\ raised' = RuntimeErrorNoSimulation
            /\ UNCHANGED <<results, model_results>>
       ELSE IF simulation.is_none
       THEN /\ results' = Some(<<>>)
            /\ raised' = TypeErrorNone
            /\ UNCHANGED model_results
       ELSE /\ results' = Some([c \in Range(ActiveCompartments) |->
                                   create_results_dataframe(c)])
            /\ model_results' = results'
            /\ raised' = ""
    /\ UNCHANGED <<inputs, simulation, pc, todo, running, n_jobs, sim_seq,
                   simulation_engine, model_simulation, derivation_state, frontend_state>>

\* A Model on SIRD data before forecast().
ModelInit ==
    /\ Init
    /\ ~has_vaccination
    /\ data_last \in {HistA, HistSmall, HistDegenerate}

\* The values of n_jobs a caller passes.
JobsValues == 0..MaxJobs

ModelNext ==
    \/ Model_forecast
    \/ \E jobs \in JobsValues : Model_run_simulations(jobs)
    \/ Model_generate_result

ModelSpec == ModelInit /\ [][ModelNext]_vars

\* Model.forecast(steps): steps overrides days_to_forecast, the forecaster
\* forecasts that many periods and a new engine is built on the forecasts.
\* self.simulation and self.results are not assigned.
Model_forecast_steps(steps) ==
    /\ \E profiles \in [Range(ActiveRates) -> Profiles] :
          /\ forecasting_box = BoxOf(profiles, n_steps)
          /\ forecasting_box' = BoxOf(profiles, steps)
    /\ n_steps' = steps
    /\ simulation_engine' = TRUE
    /\ simulation' = None
    /\ results' = None
    /\ raised' = ""
    /\ UNCHANGED <<has_vaccination, data_last, cells, row, pc, todo, running,
                   n_jobs, sim_seq, model_simulation, model_results,
                   derivation_state, frontend_state>>

\* A Model that is forecast again with another number of steps.
ReforecastInit ==
    /\ ModelInit
    /\ data_last \in {HistSmall, HistDegenerate}

ReforecastNext ==
    \/ ModelNext
    \/ \E steps \in 1..Horizon : Model_forecast_steps(steps)

ReforecastSpec == ReforecastInit /\ [][ReforecastNext]_vars

-----------------------------------------------------------------------------
(* The compartment/rate derivation (epydemics/data/features.py).  A table  *)
(* is a function from column names to columns, a column a sequence of      *)
(* cells, one per row.                                                     *)

\* epsilon = 1e-10 and 1 - epsilon, the bounds of the clip: <<1, -10>> is
\* 1 * 10^-10 and <<-1, -10>> is 1 - 10^-10.  Every other number of the
\* model has a denominator below 2^31, so it is below epsilon only if it is
\* <= 0 and above 1 - epsilon only if it is >= 1.
Epsilon == <<1, -10>>

OneMinusEpsilon == <<-1, -10>>

\* data[ratio].replace([inf, -inf], nan)
ReplaceInf(x) == IF IsInf(x) THEN NaN ELSE x

\* Mutant of ClipToUnit: only the upper bound is applied.
ClipToUnit_UpperOnly(x) ==
    IF IsNaN(x) THEN NaN
    ELSE IF RLe(Z(1), x) THEN OneMinusEpsilon
    ELSE x

\* data[ratio].clip(lower=epsilon, upper=1 - epsilon): NaN stays NaN.
ClipToUnit(x) ==
    IF IsNaN(x) THEN NaN
    ELSE IF RLe(x, Z(0)) THEN Epsilon
    ELSE IF RLe(Z(1), x) THEN OneMinusEpsilon
    ELSE x

\* Mutant of ClipLower0: nothing is clipped.
ClipLower0_Unclipped(x) == x

\* Series.clip(lower=0): NaN stays NaN.
ClipLower0(x) == IF RLt(x, Z(0)) THEN Z(0) ELSE x

\* logit_function(x) = log(x / (1 - x)): the cell [logit_of |-> x] is the
\* logit of x, NaN for x = NaN, finite for the clipped rates.
logit_function(x) == [logit_of |-> x]

\* The cell 0 of a logit column: log(1) = logit(1/2).
LogitZero == logit_function(Q(1, 2))

IsLogit(cell) == DOMAIN cell = {"logit_of"}

\* isna(cell)
IsNA(cell) == IF IsLogit(cell) THEN IsNaN(cell.logit_of) ELSE IsNaN(cell)

\* df.assign(name=col)
Assign(df, name, col) ==
    [c \in DOMAIN df \cup {name} |-> IF c = name THEN col ELSE df[c]]

\* Series.shift(k): the cell k rows earlier, NaN in the first k rows.
Shift(col, k) == [t \in 1..Len(col) |-> IF t > k THEN col[t - k] ELSE NaN]

\* Series.fillna(0) on a numeric column.
FillNa0(col) == [t \in 1..Len(col) |-> IF IsNaN(col[t]) THEN Z(0) ELSE col[t]]

\* Series.cumsum()
CumSum(col) == [t \in 1..Len(col) |-> SumSeq(SubSeq(col, 1, t))]

\* Mutant of DiffNext: the change from row t - 1 to row t, NaN in the first
\* row.
DiffNext_Backward(col) ==
    [t \in 1..Len(col) |-> IF t > 1 THEN RSub(col[t], col[t - 1]) ELSE NaN]

\* -Series.diff(periods=-1): the change from row t to row t + 1, NaN in the
\* last row.
DiffNext(col) ==
    [t \in 1..Len(col) |-> IF t < Len(col) THEN RSub(col[t + 1], col[t]) ELSE NaN]

\* Cell-wise arithmetic of two columns.
ColSub(x, y) == [t \in 1..Len(x) |-> RSub(x[t], y[t])]

ColAdd(x, y) == [t \in 1..Len(x) |-> RAdd(x[t], y[t])]

ColMul(x, y) == [t \in 1..Len(x) |-> RMul(x[t], y[t])]

ColDiv(x, y) == [t \in 1..Len(x) |-> RDiv(x[t], y[t])]

\* S = N - C - V with vaccination, S = N - C without.
Susceptible(data) ==
    IF "V" \in DOMAIN data THEN ColSub(ColSub(data.N, data.C), data.V)
    ELSE ColSub(data.N, data.C)

\* The period differences both modes compute the same way, and dV clipped
\* at 0 with vaccination.
WithDifferences(data) ==
    LET d1 == Assign(data, "dA", DiffNext(data.A))
        d2 == Assign(d1, "dS", DiffNext(data.S))
        d3 == Assign(d2, "dI", DiffNext(data.I))
        d4 == Assign(d3, "dR", DiffNext(data.R))
        d5 == Assign(d4, "dD", DiffNext(data.D))
    IN  IF "V" \in DOMAIN data
        THEN Assign(d5, "dV", [t \in 1..Len(data.V) |->
                                  ClipLower0(DiffNext(data.V)[t])])
        ELSE d5

\* _calculate_compartments_cumulative: R from C shifted by RECOVERY_LAG
\* rows, I = C - R - D, S, A = S + I, the differences.
calculate_compartments_cumulative(data, RECOVERY_LAG) ==
    LET R == ColSub(FillNa0(Shift(data.C, RECOVERY_LAG)), data.D)
        d1 == Assign(data, "R", R)
        d2 == Assign(d1, "I", ColSub(ColSub(d1.C, d1.R), d1.D))
        d3 == Assign(d2, "S", Susceptible(d2))
        d4 == Assign(d3, "A", ColAdd(d3.S, d3.I))
        d5 == Assign(d4, "dC", DiffNext(d4.C))
    IN  WithDifferences(d5)

\* Mutant of calculate_compartments_incidence: C is the incident series
\* itself.
calculate_compartments_incidence_NoCumSum(data, RECOVERY_LAG) ==
    LET d0 == Assign(data, "C", data.I)
        recovered_cumulative == CumSum(FillNa0(Shift(data.I, RECOVERY_LAG)))
        R == [t \in 1..Len(data.I) |->
                ClipLower0(RSub(recovered_cumulative[t], data.D[t]))]
        d1 == Assign(d0, "R", R)
        d3 == Assign(d1, "S", Susceptible(d1))
        d4 == Assign(d3, "A", ColAdd(d3.S, d3.I))
        d5 == Assign(d4, "dC", d4.I)
    IN  WithDifferences(d5)

\* _calculate_compartments_incidence: C = cumsum(I), R from the shifted
\* incident series, accumulated, minus D, clipped at 0; I stays the input;
\* dC = I.
calculate_compartments_incidence(data, RECOVERY_LAG) ==
    LET d0 == Assign(data, "C", CumSum(data.I))
        recovered_cumulative == CumSum(FillNa0(Shift(data.I, RECOVERY_LAG)))
        R == [t \in 1..Len(data.I) |->
                ClipLower0(RSub(recovered_cumulative[t], data.D[t]))]
        d1 == Assign(d0, "R", R)
        d3 == Assign(d1, "S", Susceptible(d1))
        d4 == Assign(d3, "A", ColAdd(d3.S, d3.I))
        d5 == Assign(d4, "dC", d4.I)
    IN  WithDifferences(d5)

\* _calculate_rates
calculate_rates(data) ==
    LET d1 == Assign(data, "alpha",
                     ColDiv(ColMul(data.A, data.dC), ColMul(data.I, data.S)))
        d2 == Assign(d1, "beta", ColDiv(data.dR, data.I))
        d3 == Assign(d2, "gamma", ColDiv(data.dD, data.I))
    IN  IF "V" \in DOMAIN data
        THEN Assign(d3, "delta", ColDiv(data.dV, data.S))
        ELSE d3

\* RATIOS and LOGIT_RATIOS of the package of the derivation.
DERIVED_RATIOS == <<"alpha", "beta", "gamma", "delta">>

LOGIT_RATIOS == <<"logit_alpha", "logit_beta", "logit_gamma", "logit_delta">>

\* prepare_for_logit_function: every rate column present has +/-Inf replaced
\* by NaN and is clipped to [epsilon, 1 - epsilon].
prepare_for_logit_function(data) ==
    [c \in DOMAIN data |->
        IF c \in Range(DERIVED_RATIOS)
        THEN [t \in 1..Len(data[c]) |-> ClipToUnit(ReplaceInf(data[c][t]))]
        ELSE data[c]]

\* Mutant of add_logit_ratios: every logit column is the logit of alpha.
add_logit_ratios_OfAlpha(data) ==
    LET present == {j \in 1..Len(DERIVED_RATIOS) : DERIVED_RATIOS[j] \in DOMAIN data}
    IN  [c \in DOMAIN data \cup {LOGIT_RATIOS[j] : j \in present} |->
            IF c \in DOMAIN data THEN data[c]
            ELSE [t \in 1..Len(data.alpha) |-> logit_function(data.alpha[t])]]

\* add_logit_ratios: one logit column per rate column present.
add_logit_ratios(data) ==
    LET present == {j \in 1..Len(DERIVED_RATIOS) : DERIVED_RATIOS[j] \in DOMAIN data}
        RatioOf(name) == DERIVED_RATIOS[CHOOSE j \in present : LOGIT_RATIOS[j] = name]
    IN  [c \in DOMAIN data \cup {LOGIT_RATIOS[j] : j \in present} |->
            IF c \in DOMAIN data THEN data[c]
            ELSE [t \in 1..Len(data[RatioOf(c)]) |->
                     logit_function(data[RatioOf(c)][t])]]

\* Mutant of CleanUp: forward fill only.
CleanUp_ForwardFillOnly(data) ==
    [c \in DOMAIN data |->
        [t \in 1..Len(data[c]) |->
            IF \E u \in 1..t : ~IsNA(data[c][u])
            THEN data[c][CHOOSE u \in 1..t :
                            /\ ~IsNA(data[c][u])
                            /\ \A w \in (u + 1)..t : IsNA(data[c][w])]
            ELSE data[c][t]]]

\* engineered_data.ffill().fillna(0): a missing cell takes the last cell
\* before it that is not missing, or 0 when there is none.
CleanUp(data) ==
    [c \in DOMAIN data |->
        [t \in 1..Len(data[c]) |->
            IF \E u \in 1..t : ~IsNA(data[c][u])
            THEN data[c][CHOOSE u \in 1..t :
                            /\ ~IsNA(data[c][u])
                            /\ \A w \in (u + 1)..t : IsNA(data[c][w])]
            ELSE IF c \in Range(LOGIT_RATIOS) THEN LogitZero ELSE Z(0)]]

\* feature_engineering(data, mode) with settings.RECOVERY_LAG.
feature_engineering(data, mode, RECOVERY_LAG) ==
    LET filled == IF "V" \in DOMAIN data
                  THEN Assign(data, "V", FillNa0(data.V)) ELSE data
        compartments == IF mode = "cumulative"
                        THEN calculate_compartments_cumulative(filled, RECOVERY_LAG)
                        ELSE calculate_compartments_incidence(filled, RECOVERY_LAG)
        rates == calculate_rates(compartments)
        with_R0 == Assign(rates, "R0",
                          ColDiv(rates.alpha, ColAdd(rates.beta, rates.gamma)))
    IN  CleanUp(add_logit_ratios(prepare_for_logit_function(with_R0)))

\* The recovery lag of a frequency, in periods of that frequency: 14 days
\* are 14 daily periods, 14/30 of a month, 14/365 of a year.
get_recovery_lag(frequency) ==
    IF frequency = "D" THEN Z(14)
    ELSE IF frequency = "ME" THEN Q(14, 30)
    ELSE Q(14, 365)

\* Bound of the observation tables: the number of rows.
MaxRows == 3

Rows == 1..MaxRows

Modes == {"cumulative", "incidence"}

Frequencies == {"D", "ME", "YE"}

\* Values of settings.RECOVERY_LAG, in rows; 14 is the default.
RecoveryLags == {1, 2, 14}

Populations == {Z(7), Z(10)}

\* Incident cases per period.
IncidentValues == {Z(0), Z(1), Z(2)}

IncidentSeries == [Rows -> IncidentValues]

\* Cumulative deaths: none before row k, one from row k on.
DeathSeries == {[t \in Rows |-> IF t >= k THEN Z(1) ELSE Z(0)] : k \in 1..(MaxRows + 1)}

\* Cumulative vaccinations: no V column, or a column whose first cell is
\* missing and that reaches one from row 3 on.
VaccinationSeries ==
    {None, Some([t \in Rows |-> IF t = 1 THEN NaN ELSE IF t = 2 THEN Z(0) ELSE Z(1)])}

Observations ==
    [mode : Modes, frequency : Frequencies, RECOVERY_LAG : RecoveryLags,
     I : IncidentSeries, D : DeathSeries, N : Populations, V : VaccinationSeries]

\* The preprocessed table of an observation in a mode: I, D, N in incidence
\* mode, C = running sum of I, D, N in cumulative mode, V when present.
ObservationTable(obs, mode) ==
    LET base == [c \in {IF mode = "cumulative" THEN "C" ELSE "I", "D", "N"} |->
                    IF c = "C" THEN CumSum(obs.I)
                    ELSE IF c = "I" THEN obs.I
                    ELSE IF c = "D" THEN obs.D
                    ELSE [t \in Rows |-> obs.N]]
    IN  IF obs.V.is_none THEN base ELSE Assign(base, "V", obs.V.val)

\* DataContainer(raw_data, mode): the derived table of the observations.
Derive ==
    /\ ~raw.is_none
    /\ derived.is_none
    /\ derived' = Some(feature_engineering(ObservationTable(raw.val, raw.val.mode),
                                           raw.val.mode, raw.val.RECOVERY_LAG))
    /\ UNCHANGED <<has_vaccination, data_last, forecasting_box, n_steps,
                   simulation, results, pc, todo, running, n_jobs, raised,
                   sim_seq, cells, row, model_state, raw, frontend_state>>

DerivInit ==
    /\ has_vaccination = FALSE
    /\ data_last = HistSmall
    /\ n_steps = 1
    /\ forecasting_box = BoxOf([r \in Range(RATIOS) |-> ProfileFlat], n_steps)
    /\ simulation = None
    /\ results = None
    /\ pc = "idle"
    /\ todo = <<>>
    /\ running = {}
    /\ n_jobs = 1
    /\ raised = ""
    /\ sim_seq = None
    /\ cells = <<>>
    /\ row = None
    /\ NoModel
    /\ raw \in {Some(obs) : obs \in Observations}
    /\ derived = None
    /\ NoFrontend

DerivNext == Derive

DerivSpec == DerivInit /\ [][DerivNext]_vars

-----------------------------------------------------------------------------
(* Derivations of revised observations: counts that were corrected         *)
(* downwards, so that the cumulative columns C, D and V can decrease from  *)
(* one row to the next.                                                    *)

\* Cases of a period, with a correction of an earlier count.
RevisedValues == {Z(-1), Z(0), Z(1)}

CountValues == {Z(0), Z(1)}

RevisedObservations ==
    [mode : Modes, frequency : {"D"}, RECOVERY_LAG : {1},
     I : [Rows -> RevisedValues], D : [Rows -> CountValues], N : {Z(10)},
     V : {Some(v) : v \in [Rows -> CountValues]}]

RevisionInit ==
    /\ has_vaccination = FALSE
    /\ data_last = HistSmall
    /\ n_steps = 1
    /\ forecasting_box = BoxOf([r \in Range(RATIOS) |-> ProfileFlat], n_steps)
    /\ simulation = None
    /\ results = None
    /\ pc = "idle"
    /\ todo = <<>>
    /\ running = {}
    /\ n_jobs = 1
    /\ raised = ""
    /\ sim_seq = None
    /\ cells = <<>>
    /\ row = None
    /\ NoModel
    /\ raw \in {Some(obs) : obs \in RevisedObservations}
    /\ derived = None
    /\ NoFrontend

RevisionSpec == RevisionInit /\ [][DerivNext]_vars

-----------------------------------------------------------------------------
(* The derivation and the engine side by side: a derivation of an          *)
(* observation table and the sequential runs of an engine on SIRD data.    *)

\* Observation tables with a month of cases a day, in both modes, with and
\* without a vaccination column (whose first cell is missing).
FrameObservations ==
    {obs \in Observations :
        /\ obs.frequency = "D"
        /\ obs.RECOVERY_LAG = 1
        /\ obs.N = Z(10)
        /\ obs.I = [t \in Rows |-> Z(1)]
        /\ obs.D = [t \in Rows |-> Z(0)]}

FrameInit ==
    /\ has_vaccination = FALSE
    /\ data_last = HistSmall
    /\ n_steps = Horizon
    /\ \E profiles \in [Range(ActiveRates) -> Profiles] :
          /\ profiles["beta"] = profiles["gamma"]
          /\ forecasting_box = BoxOf(profiles, n_steps)
    /\ simulation = None
    /\ results = None
    /\ pc = "idle"
    /\ todo = <<>>
    /\ running = {}
    /\ n_jobs = 1
    /\ raised = ""
    /\ sim_seq = None
    /\ cells = <<>>
    /\ row = None
    /\ NoModel
    /\ raw \in {Some(obs) : obs \in FrameObservations}
    /\ derived = None
    /\ NoFrontend

FrameNext == Next \/ Derive

FrameSpec == FrameInit /\ [][FrameNext]_vars

-----------------------------------------------------------------------------
(* The DataContainer (epydemics/data/container.py): its constructor checks *)
(* the mode, validates the raw table for the mode, smooths it              *)
(* (epydemics/data/preprocessing.py) and derives the compartments and      *)
(* rates.  The raw tables have one row per day.                            *)

ValueErrorMode == "ValueError: Invalid mode. Must be 'cumulative' or 'incidence'"

DataValidationErrorColumns == "DataValidationError: missing required columns"

\* The columns validate_data(raw_data, mode) requires.
RequiredColumns(mode) ==
    IF mode = "cumulative" THEN {"C", "D", "N"} ELSE {"I", "D", "N"}

\* data.rolling(window).mean(): the mean of the last `window` rows, NaN in
\* the first window - 1 rows.
RollingMean(col, window) ==
    [t \in 1..Len(col) |->
        IF t < window THEN NaN
        ELSE RDiv(SumSeq(SubSeq(col, t - window + 1, t)), Z(window))]

\* column[window:]: the rows from position `window` on, counted from 0.
Slice(col, window) == SubSeq(col, window + 1, Len(col))

\* preprocess_data(data, window): the rolling mean of every column, sliced;
\* reindex_data changes nothing on a table with a row per day and no NaN.
preprocess_data(data, window) ==
    [c \in DOMAIN data |-> Slice(RollingMean(data[c], window), window)]

\* Bounds of the raw tables: their rows and the smoothing window.
MaxRawRows == 4

MaxWindow == 2

RawRows == 1..MaxRawRows

\* The modes a caller passes: the two supported ones and another one.
CallerModes == Modes \cup {"daily"}

\* The raw tables: the cases of every day, cumulative deaths that are 0 or
\* reach 1 at row 2, and possibly one column missing.
RawInputs ==
    [mode : CallerModes, window : 1..MaxWindow, RECOVERY_LAG : {1, 14},
     cases : [RawRows -> IncidentValues],
     D : {[t \in RawRows |-> Z(0)], [t \in RawRows |-> IF t >= 2 THEN Z(1) ELSE Z(0)]},
     N : {Z(10)},
     missing : {"", "cases", "D", "N"}]

\* The raw table of an input: C (running sum of the cases) unless the mode
\* is incidence, where it is I; D; N; without the missing column.
RawTable(inp) ==
    LET cases_column == IF inp.mode = "incidence" THEN "I" ELSE "C"
        present == ({cases_column} \ (IF inp.missing = "cases" THEN {cases_column} ELSE {}))
                   \cup ({"D", "N"} \ {inp.missing})
    IN  [c \in present |->
            IF c = "C" THEN CumSum(inp.cases)
            ELSE IF c = "I" THEN inp.cases
            ELSE IF c = "D" THEN inp.D
            ELSE [t \in RawRows |-> inp.N]]

\* Mutant of DataContainer_init: the table is smoothed and stored before
\* the mode and the columns are checked.
DataContainer_init_ProcessFirst ==
    /\ ~raw.is_none
    /\ derived.is_none
    /\ raised = ""
    /\ LET inp == raw.val
           table == RawTable(inp)
       IN  IF inp.mode \notin Modes
           THEN /\ raised' = ValueErrorMode
                /\ derived' = Some(preprocess_data(table, inp.window))
           ELSE IF ~(RequiredColumns(inp.mode) \subseteq DOMAIN table)
           THEN /\ raised' = DataValidationErrorColumns
                /\ derived' = Some(preprocess_data(table, inp.window))
           ELSE /\ raised' = ""
                /\ derived' = Some(feature_engineering(
                                     preprocess_data(table, inp.window),
                                     inp.mode, inp.RECOVERY_LAG))
    /\ UNCHANGED <<has_vaccination, data_last, forecasting_box, n_steps,
                   simulation, results, pc, todo, running, n_jobs,
                   sim_seq, cells, row, model_state, raw, frontend_state>>

\* DataContainer(raw_data, window, mode): ValueError on a mode that is not
\* supported, before any attribute is set; the error of validate_data on a
\* missing column, with data = None; otherwise data is the derived table of
\* the smoothed table.
DataContainer_init ==
    /\ ~raw.is_none
    /\ derived.is_none
    /\ raised = ""
    /\ LET inp == raw.val
           table == RawTable(inp)
       IN  IF inp.mode \notin Modes
           THEN /\ raised' = ValueErrorMode
                /\ derived' = None
           ELSE IF ~(RequiredColumns(inp.mode) \subseteq DOMAIN table)
           THEN /\ raised' = DataValidationErrorColumns
                /\ derived' = None
           ELSE /\ raised' = ""
                /\ derived' = Some(feature_engineering(
                                     preprocess_data(table, inp.window),
                                     inp.mode, inp.RECOVERY_LAG))
    /\ UNCHANGED <<has_vaccination, data_last, forecasting_box, n_steps,
                   simulation, results, pc, todo, running, n_jobs,
                   sim_seq, cells, row, model_state, raw, frontend_state>>

ContainerInit ==
    /\ has_vaccination = FALSE
    /\ data_last = HistSmall
    /\ n_steps = 1
    /\ forecasting_box = BoxOf([r \in Range(RATIOS) |-> ProfileFlat], n_steps)
    /\ simulation = None
    /\ results = None
    /\ pc = "idle"
    /\ todo = <<>>
    /\ running = {}
    /\ n_jobs = 1
    /\ raised = ""
    /\ sim_seq = None
    /\ cells = <<>>
    /\ row = None
    /\ NoModel
    /\ raw \in {Some(inp) : inp \in RawInputs}
    /\ derived = None
    /\ NoFrontend

ContainerNext == DataContainer_init

ContainerSpec == ContainerInit /\ [][ContainerNext]_vars

-----------------------------------------------------------------------------
(* The frequency handlers (epydemics/data/frequency_handlers.py), as the   *)
(* unit tests of the handlers fix them: one handler per frequency code,    *)
(* with the least number of observations it asks for and the validation of *)
(* a table.  A table is its number of rows, whether its index is a         *)
(* DatetimeIndex and whether its rows are evenly spaced.                   *)

HandlerCodes == {"D", "W", "ME", "YE", "B"}

\* handler.get_min_observations()
get_min_observations(frequency) ==
    IF frequency = "D" THEN 30
    ELSE IF frequency = "W" THEN 26
    ELSE IF frequency = "ME" THEN 24
    ELSE IF frequency = "YE" THEN 10
    ELSE 60

\* The number of observations validate_data asks for, the one its error
\* names ("at least 30 observations" for the business-day handler).
ValidatedMinimum(frequency) ==
    IF frequency = "B" THEN 30 ELSE get_min_observations(frequency)

\* Bound of the tables given to validate_data: their number of rows.
MaxObservations == 61

ValidationTables ==
    [rows : 0..MaxObservations, datetime_index : BOOLEAN, evenly_spaced : BOOLEAN]

Accepted == [kind |-> "accepted", at_least |-> 0]

\* handler.validate_data(table): what it raises, or Accepted.
validate_data_outcome(frequency, table) ==
    IF ~table.datetime_index
    THEN [kind |-> "ValueError: DatetimeIndex", at_least |-> 0]
    ELSE IF table.rows < ValidatedMinimum(frequency)
    THEN [kind |-> "ValueError: at least", at_least |-> ValidatedMinimum(frequency)]
    ELSE IF ~table.evenly_spaced
    THEN [kind |-> "ValueError: irregular frequency", at_least |-> 0]
    ELSE Accepted

\* A call of handler.validate_data(table) of the handler of a frequency.
validate_data(frequency, table) ==
    /\ validation' = Some([frequency |-> frequency, table |-> table,
                           outcome |-> validate_data_outcome(frequency, table)])
    /\ UNCHANGED <<has_vaccination, data_last, forecasting_box, n_steps,
                   simulation, results, pc, todo, running, n_jobs, raised,
                   sim_seq, cells, row, model_state, derivation_state,
                   forecasted_logit_ratios_tuple_arrays>>

HandlerInit ==
    /\ has_vaccination = FALSE
    /\ data_last = HistSmall
    /\ n_steps = 1
    /\ forecasting_box = BoxOf([r \in Range(RATIOS) |-> ProfileFlat], n_steps)
    /\ simulation = None
    /\ results = None
    /\ pc = "idle"
    /\ todo = <<>>
    /\ running = {}
    /\ n_jobs = 1
    /\ raised = ""
    /\ sim_seq = None
    /\ cells = <<>>
    /\ row = None
    /\ NoModel /\ NoDerivation /\ NoFrontend

HandlerNext ==
    \E frequency \in HandlerCodes : \E table \in ValidationTables :
        validate_data(frequency, table)

HandlerSpec == HandlerInit /\ [][HandlerNext]_vars

-----------------------------------------------------------------------------
(* The forecasting front end: VARForecasting.forecast_logit_ratios.        *)

\* utils.transformations.logistic_function: the inverse of logit_function.
logistic_function(cell) == cell.logit_of

\* What the fitted model forecasts for one rate: per level, a pattern of
\* rates strictly inside (0, 1), lower < point < upper at every step.
ForecastLow ==
    [lower |-> <<Q(1, 10)>>, point |-> <<Q(1, 5)>>, upper |-> <<Q(3, 10)>>]

ForecastMid ==
    [lower |-> <<Q(1, 4)>>, point |-> <<Q(1, 2)>>, upper |-> <<Q(3, 4)>>]

ForecastHigh ==
    [lower |-> <<Q(3, 5)>>, point |-> <<Q(7, 10)>>, upper |-> <<Q(4, 5)>>]

ForecastSwing ==
    [lower |-> <<Q(1, 5), Q(1, 10)>>, point |-> <<Q(2, 5), Q(3, 10)>>,
     upper |-> <<Q(3, 5), Q(1, 2)>>]

ForecastProfiles == {ForecastLow, ForecastMid, ForecastHigh, ForecastSwing}

\* The order of the arrays the fitted model returns: the point forecast
\* first, then the lower and the upper bound of the interval.
BackendParts == <<"point", "lower", "upper">>

\* The logit ratios of the model's data, in the order of its columns.
active_logit_ratios == [k \in 1..Len(ActiveRates) |-> LOGIT_RATIOS[k]]

\* VARForecaster.forecast_interval: a tuple of three arrays, each with one
\* row per step and one column per logit ratio.
forecast_interval(fitted, steps) ==
    [p \in 1..Len(BackendParts) |->
        [t \in 1..steps |->
            [k \in 1..Len(ActiveRates) |->
                logit_function(
                    Series(fitted[ActiveRates[k]][BackendParts[p]],
                           steps)[t])]]]

\* pd.DataFrame(array, index, columns=FORECASTING_LEVELS): the j-th column
\* of the array gets the j-th level's name.
LevelIndex(l) ==
    CHOOSE j \in 1..Len(FORECASTING_LEVELS) : FORECASTING_LEVELS[j] = l

DataFrameOfLevels(array) ==
    [l \in Range(FORECASTING_LEVELS) |->
        [t \in 1..Len(array) |-> array[t][LevelIndex(l)]]]

RateIndex(r) == CHOOSE k \in 1..Len(ActiveRates) : ActiveRates[k] = r

ValueErrorShape == "ValueError: Shape of passed values"

\* forecast_logit_ratios(steps): the tuple of the backend is stored, the
\* box is emptied, and the i-th element of the tuple becomes the frame of
\* the i-th logit ratio; the frames of the rates are their logistic
\* images.  An array with more columns than there are levels makes the
\* first DataFrame raise, and the box stays empty.
forecast_logit_ratios(fitted, steps) ==
    LET tuple_arrays == forecast_interval(fitted, steps)
        fits == Len(ActiveRates) = Len(FORECASTING_LEVELS)
        logit_box ==
            [k \in 1..Len(ActiveRates) |-> DataFrameOfLevels(tuple_arrays[k])]
        rate_box ==
            [r \in Range(ActiveRates) |->
                [l \in Range(FORECASTING_LEVELS) |->
                    [t \in 1..steps |->
                        logistic_function(logit_box[RateIndex(r)][l][t])]]]
    IN  /\ n_steps' = steps
        /\ forecasted_logit_ratios_tuple_arrays' = Some(tuple_arrays)
        /\ forecasting_box' = IF fits THEN rate_box ELSE <<>>
        /\ raised' = IF fits THEN "" ELSE ValueErrorShape
        /\ UNCHANGED <<has_vaccination, data_last, simulation, results, pc,
                       todo, running, n_jobs, sim_seq, cells, row,
                       model_state, derivation_state, validation>>

ForecastInit ==
    /\ has_vaccination \in BOOLEAN
    /\ data_last \in (IF has_vaccination THEN HistoriesV ELSE {HistSmall})
    /\ n_steps = 1
    /\ forecasting_box = <<>>
    /\ simulation = None
    /\ results = None
    /\ pc = "idle"
    /\ todo = <<>>
    /\ running = {}
    /\ n_jobs = 1
    /\ raised = ""
    /\ sim_seq = None
    /\ cells = <<>>
    /\ row = None
    /\ NoModel /\ NoDerivation /\ NoFrontend

ForecastNext ==
    \E fitted \in [Range(ActiveRates) -> ForecastProfiles] :
        \E steps \in 1..Horizon : forecast_logit_ratios(fitted, steps)

ForecastSpec == ForecastInit /\ [][ForecastNext]_vars

-----------------------------------------------------------------------------
(* Properties.                                                             *)

\* The scenarios whose trajectory a caller can read: the slots that hold
\* one once run_simulations has returned.
SetKeys ==
    IF simulation.is_none \/ pc # "idle" THEN {}
    ELSE {key \in DOMAIN simulation.val : ~simulation.val[key].is_none}

Traj(key) == simulation.val[key].val

\* The state a row was computed from.
Prev(key, i) == IF i = 1 THEN data_last ELSE Traj(key)[i - 1]

Total(rec) ==
    LET sird == RAdd(RAdd(RAdd(rec.S, rec.I), rec.R), rec.D)
    IN  IF has_vaccination THEN RAdd(sird, rec.V) ELSE sird

PopulationFinite(rec) ==
    /\ IsFinite(rec.S) /\ IsFinite(rec.I) /\ IsFinite(rec.R) /\ IsFinite(rec.D)
    /\ has_vaccination => IsFinite(rec.V)

\* C1 as claimed: in every scenario trajectory and at every forecast step,
\* S + I + R + D (+ V with vaccination) equals the same sum of the last
\* historical record.
C1_ConservationEveryRow ==
    \A key \in SetKeys : \A i \in 1..Len(Traj(key)) :
        REq(Total(Traj(key)[i]), Total(data_last))

\* C1 amended: the sum is conserved in every row whose S, I, R, D (and V)
\* are finite; a row reached through a division by A = 0 holds NaN.
C1_ConservationFiniteRows ==
    \A key \in SetKeys : \A i \in 1..Len(Traj(key)) :
        PopulationFinite(Traj(key)[i]) =>
            REq(Total(Traj(key)[i]), Total(data_last))

C1_Witness ==
    \E key \in SetKeys :
        LET t == Traj(key)
        IN  /\ Len(t) >= 2
            /\ PopulationFinite(t[Len(t)])
            /\ t[Len(t)].S # data_last.S
            /\ t[Len(t)].R # t[1].R
            /\ t[Len(t)].D # t[1].D

\* C2: one step from (S, I, R, D, A) with the current rates gives
\* infection = I*alpha*S/A, S' = S - infection,
\* I' = I + infection - beta*I - gamma*I, R' = R + beta*I, D' = D + gamma*I,
\* C' = I' + R' + D', A' = S' + I'; the worked example S=900, I=100, R=0,
\* D=0, A=1000, alpha=0.2, beta=0.1, gamma=0.01 gives infection=18, I'=107,
\* S'=882, R'=10, D'=1, C'=118, A'=989.
C2_StepEquations ==
    ~has_vaccination =>
    \A key \in SetKeys : \A i \in 1..Len(Traj(key)) :
        LET p == Prev(key, i)
            q == Traj(key)[i]
            infection == RDiv(RMul(RMul(p.I, p.alpha), p.S), p.A)
        IN  /\ q.S = RSub(p.S, infection)
            /\ q.I = RSub(RSub(RAdd(p.I, infection), RMul(p.beta, p.I)),
                          RMul(p.gamma, p.I))
            /\ q.R = RAdd(p.R, RMul(p.beta, p.I))
            /\ q.D = RAdd(p.D, RMul(p.gamma, p.I))
            /\ q.C = RAdd(RAdd(q.I, q.R), q.D)
            /\ q.A = RAdd(q.S, q.I)
            /\ (/\ p.S = Z(900) /\ p.I = Z(100) /\ p.R = Z(0) /\ p.D = Z(0)
                /\ p.A = Z(1000) /\ p.alpha = Q(1, 5) /\ p.beta = Q(1, 10)
                /\ p.gamma = Q(1, 100))
               => /\ infection = Z(18)
                  /\ q.I = Z(107) /\ q.S = Z(882) /\ q.R = Z(10)
                  /\ q.D = Z(1) /\ q.C = Z(118) /\ q.A = Z(989)

C2_Witness ==
    /\ data_last.S = Z(900) /\ data_last.I = Z(100) /\ data_last.A = Z(1000)
    /\ data_last.alpha = Q(1, 5) /\ data_last.beta = Q(1, 10)
    /\ data_last.gamma = Q(1, 100)
    /\ \E key \in SetKeys : Traj(key)[1].I = Z(107)

\* The compartments one step leads to from the state and rates `prev`.
NextCompartments(prev) ==
    IF has_vaccination
    THEN [c \in Range(ActiveCompartments) |->
             SimStepV(prev, prev.alpha, prev.beta, prev.gamma, prev.delta)[c]]
    ELSE Flows(prev)

\* C3: the transition that produces row 0 uses the last historical rates;
\* the forecast values of step i are stored in row i and are the rates of
\* the transition that produces row i+1; a trajectory has exactly `horizon`
\* rows, each with the compartments and the rates.
C3_RatesLagOneStep ==
    \A key \in SetKeys :
        LET t == Traj(key)
        IN  /\ Len(t) = n_steps
            /\ \A i \in 1..Len(t) :
                  /\ DOMAIN t[i] = Range(ActiveCompartments) \cup Range(ActiveRates)
                  /\ \A j \in 1..Len(ActiveRates) :
                        t[i][ActiveRates[j]] =
                            forecasting_box[ActiveRates[j]][key[j]][i]
                  /\ [c \in Range(ActiveCompartments) |-> t[i][c]]
                        = NextCompartments(Prev(key, i))

C3_Witness ==
    \E key \in SetKeys :
        LET t == Traj(key)
        IN  /\ Len(t) >= 2
            /\ t[1].alpha # data_last.alpha
            /\ t[1].beta # data_last.beta
            /\ t[2].alpha # t[1].alpha
            /\ IsFinite(t[2].I)
            /\ t[2].I # t[1].I

RowValue(name) ==
    row.val[CHOOSE c \in 1..Len(row.val) : row.val[c].name = name].value

\* C5 as claimed: in a row of a ResultTable, mean, median, gmean and hmean
\* are each computed from the scenario cells of the row only, no aggregate
\* being an input to another (cells 1, 2, 4 give 7/3, 2, 2 and 12/7).  An
\* aggregate that comes out irrational is left uncompared.
C5_AggregatesOfScenarioCells ==
    ~row.is_none =>
        /\ RowValue("mean") = Mean(cells)
        /\ RowValue("median") = Median(cells)
        /\ (~IsTerm(RowValue("gmean")) /\ ~IsTerm(GMean(cells)))
              => RowValue("gmean") = GMean(cells)
        /\ (~IsTerm(RowValue("hmean")) /\ ~IsTerm(HMean(cells)))
              => RowValue("hmean") = HMean(cells)
        /\ cells = <<Z(1), Z(2), Z(4)>> =>
              /\ RowValue("mean") = Q(7, 3)
              /\ RowValue("median") = Z(2)
              /\ RowValue("gmean") = Z(2)
              /\ RowValue("hmean") = Q(12, 7)

NumRates == Len(ActiveRates)

NumScenarios == Len(FORECASTING_LEVELS) ^ NumRates

\* The tables generate_result has built (none after a failed call).
Tables == IF results.is_none THEN {} ELSE {results.val[c] : c \in DOMAIN results.val}

\* C6: after run_simulations exactly 3^k trajectories exist (27 for k = 3,
\* 81 for k = 4), one per ScenarioKey, none missing and none run twice; a
\* ResultTable has exactly 3^k scenario columns plus the 4 aggregate
\* columns mean, median, gmean, hmean.
C6_ScenarioCount ==
    /\ (NumRates = 3 => NumScenarios = 27) /\ (NumRates = 4 => NumScenarios = 81)
    /\ ~simulation.is_none =>
          /\ DOMAIN simulation.val = [1..NumRates -> Range(FORECASTING_LEVELS)]
          /\ Cardinality(DOMAIN simulation.val) = NumScenarios
          /\ pc = "idle" => Cardinality(SetKeys) = NumScenarios
          /\ n_jobs = 1 =>
                /\ Len(todo) = Cardinality(Range(todo))
                /\ \A key \in DOMAIN simulation.val :
                      simulation.val[key].is_none <=> key \in Range(todo)
    /\ \A df \in Tables :
          LET names == ColumnNames(df)
              aggs == Range(CENTRAL_TENDENCY_METHODS)
          IN  /\ Len(names) = NumScenarios + Cardinality(aggs)
              /\ Cardinality(Range(names)) = Len(names)
              /\ Cardinality({j \in 1..Len(names) : names[j] \notin aggs})
                    = NumScenarios
              /\ Cardinality({j \in 1..Len(names) : names[j] \in aggs})
                    = Cardinality(aggs)

C6_Witness ==
    /\ pc = "idle" /\ Cardinality(SetKeys) = NumScenarios
    /\ Tables # {}
    /\ \A df \in Tables : Len(df) > NumScenarios

\* The j-th key of the Cartesian product of the levels over k rates, the
\* last rate varying fastest.
ExpectedKey(j, k) ==
    [p \in 1..k |->
        FORECASTING_LEVELS[(((j - 1) \div (Len(FORECASTING_LEVELS) ^ (k - p)))
                              % Len(FORECASTING_LEVELS)) + 1]]

ExpectedName(key) ==
    IF Len(key) = 3 THEN key[1] \o "|" \o key[2] \o "|" \o key[3]
    ELSE key[1] \o "|" \o key[2] \o "|" \o key[3] \o "|" \o key[4]

\* C7: the scenario columns of every ResultTable come in the order of the
\* Cartesian product of (lower, point, upper) over (alpha, beta, gamma,
\* [delta]), last rate fastest, each named by its levels joined with "|";
\* order and names are the same on every run.
C7_ColumnOrder ==
    \A df \in Tables :
        \A j \in 1..NumScenarios :
            /\ df[j].name = ExpectedName(ExpectedKey(j, NumRates))
            /\ ~simulation.is_none /\ pc = "idle" =>
                  \A i \in 1..n_steps : \A c \in DOMAIN results.val :
                      results.val[c][j].values[i]
                          = Traj(ExpectedKey(j, NumRates))[i][c]

C7_Witness ==
    /\ Tables # {}
    /\ \A df \in Tables :
          /\ df[1].name = "lower|lower|lower"
          /\ df[2].name = "lower|lower|point"
          /\ df[4].name = "lower|point|lower"
          /\ df[NumScenarios].name = "upper|upper|upper"

RowFinite(rec) == \A c \in Range(ActiveCompartments) : IsFinite(rec[c])

\* C8 as claimed: in every row of every scenario trajectory, A = S + I and
\* C = I + R + D.
C8_IdentitiesEveryRow ==
    \A key \in SetKeys : \A i \in 1..Len(Traj(key)) :
        LET q == Traj(key)[i]
        IN  /\ REq(q.A, RAdd(q.S, q.I))
            /\ REq(q.C, RAdd(RAdd(q.I, q.R), q.D))

\* C8 amended: A = S + I and C = I + R + D in every row whose compartments
\* are finite (a row that holds NaN equals nothing, itself included).
C8_IdentitiesFiniteRows ==
    \A key \in SetKeys : \A i \in 1..Len(Traj(key)) :
        LET q == Traj(key)[i]
        IN  RowFinite(q) =>
                /\ REq(q.A, RAdd(q.S, q.I))
                /\ REq(q.C, RAdd(RAdd(q.I, q.R), q.D))

C8_Witness ==
    /\ ~REq(data_last.A, RAdd(data_last.S, data_last.I))
    /\ \E key \in SetKeys :
          LET t == Traj(key)
          IN  /\ Len(t) >= 2
              /\ RowFinite(t[Len(t)])
              /\ t[Len(t)].A # t[1].A
              /\ t[Len(t)].C # t[1].C

\* The forecast rates of a scenario are all >= 0.
ForecastNonNegative(key) ==
    \A j \in 1..Len(ActiveRates) : \A i \in 1..n_steps :
        RLe(Z(0), forecasting_box[ActiveRates[j]][key[j]][i])

NonDecreasing(p, q) ==
    /\ RLe(p.C, q.C)
    /\ RLe(p.D, q.D)
    /\ has_vaccination => RLe(p.V, q.V)

\* C9 as claimed: for every scenario whose forecast rates are all
\* non-negative, C, D and (if present) V do not decrease from a trajectory
\* row to the next.
C9_MonotoneGivenRates ==
    \A key \in SetKeys :
        ForecastNonNegative(key) =>
            \A i \in 1..(Len(Traj(key)) - 1) :
                NonDecreasing(Traj(key)[i], Traj(key)[i + 1])

\* C9 amended: C, D and (if present) V do not decrease from a row to the
\* next whenever the rates applied are non-negative and the earlier row has
\* S >= 0, I >= 0 and A > 0, all finite.
C9_MonotoneFromNonNegativeRow ==
    \A key \in SetKeys :
        ForecastNonNegative(key) =>
            \A i \in 1..(Len(Traj(key)) - 1) :
                LET p == Traj(key)[i]
                IN  (RowFinite(p) /\ RLe(Z(0), p.S) /\ RLe(Z(0), p.I)
                        /\ RLt(Z(0), p.A))
                    => NonDecreasing(p, Traj(key)[i + 1])

C9_Witness ==
    \E key \in SetKeys :
        /\ ForecastNonNegative(key)
        /\ Len(Traj(key)) >= 2
        /\ LET p == Traj(key)[1]
               q == Traj(key)[2]
           IN  /\ RowFinite(p) /\ RLe(Z(0), p.S) /\ RLe(Z(0), p.I)
               /\ RLt(Z(0), p.A)
               /\ RLt(p.C, q.C) /\ RLt(p.D, q.D)

\* The forecast beta and gamma of a scenario are 0 at every step.
PureInfection(key) ==
    \A i \in 1..n_steps :
        /\ forecasting_box["beta"][key[2]][i] = Z(0)
        /\ forecasting_box["gamma"][key[3]][i] = Z(0)

\* C10 as claimed: when the forecast beta and gamma are 0 at every step, R
\* and D of every trajectory row equal their last historical values.
C10_RAndDAtHistoricalValues ==
    \A key \in SetKeys :
        PureInfection(key) =>
            \A i \in 1..Len(Traj(key)) :
                /\ REq(Traj(key)[i].R, data_last.R)
                /\ REq(Traj(key)[i].D, data_last.D)

\* C10 amended: when the forecast beta and gamma are 0 at every step, R and
\* D of every row, where finite, equal their values in row 0, which are the
\* last historical values advanced by the last historical rates
\* (R + beta*I, D + gamma*I); they equal the last historical values when
\* the last historical beta and gamma are 0 as well.
C10_RAndDAtRowZeroValues ==
    \A key \in SetKeys :
        PureInfection(key) =>
            \A i \in 1..Len(Traj(key)) :
                LET q == Traj(key)[i]
                    h == data_last
                IN  /\ IsFinite(q.R) => REq(q.R, RAdd(h.R, RMul(h.beta, h.I)))
                    /\ IsFinite(q.D) => REq(q.D, RAdd(h.D, RMul(h.gamma, h.I)))
                    /\ (h.beta = Z(0) /\ IsFinite(q.R)) => REq(q.R, h.R)
                    /\ (h.gamma = Z(0) /\ IsFinite(q.D)) => REq(q.D, h.D)

C10_Witness ==
    \E key \in SetKeys :
        /\ PureInfection(key)
        /\ data_last.beta # Z(0) /\ data_last.gamma # Z(0)
        /\ LET t == Traj(key)
           IN  /\ Len(t) >= 2
               /\ RowFinite(t[Len(t)])
               /\ t[Len(t)].I # t[1].I
               /\ t[Len(t)].I # Z(0)
               /\ t[Len(t)].R # data_last.R

\* The last historical record of the claim's case: I = 0 with S = 0 or A = 0.
DegenerateStart == data_last.I = Z(0) /\ (data_last.S = Z(0) \/ data_last.A = Z(0))

\* The step whose infection term is 0/0: the first when A = 0; the second
\* when S = I = 0 with A # 0, after the first step has recomputed
\* A = S + I = 0.
ZeroOverZeroStep == IF data_last.A = Z(0) THEN 1 ELSE 2

\* C11: from a last record with I = 0 and S = 0 or A = 0 the simulation
\* raises nothing and every trajectory has n_steps rows; from the step whose
\* infection term is 0/0 on, S, I, A and C are NaN, and R and D (computed
\* from the earlier I) are NaN one step later; the rows before are finite.
C11_NaNFromDegenerateStart ==
    DegenerateStart =>
        /\ pc = "idle" /\ ~simulation.is_none => raised = ""
        /\ \A key \in SetKeys :
              /\ Len(Traj(key)) = n_steps
              /\ \A i \in 1..n_steps :
                    LET row_i == Traj(key)[i]
                    IN  /\ i < ZeroOverZeroStep => RowFinite(row_i)
                        /\ i >= ZeroOverZeroStep =>
                              /\ IsNaN(row_i.S) /\ IsNaN(row_i.I)
                              /\ IsNaN(row_i.A) /\ IsNaN(row_i.C)
                        /\ i = ZeroOverZeroStep =>
                              IsFinite(row_i.R) /\ IsFinite(row_i.D)
                        /\ i > ZeroOverZeroStep =>
                              IsNaN(row_i.R) /\ IsNaN(row_i.D)

C11_Witness ==
    /\ DegenerateStart
    /\ raised = ""
    /\ Cardinality(SetKeys) = NumScenarios
    /\ \E key \in SetKeys :
          /\ Len(Traj(key)) = Horizon
          /\ IsNaN(Traj(key)[ZeroOverZeroStep].I)
          /\ IsFinite(Traj(key)[ZeroOverZeroStep].R)
          /\ IsNaN(Traj(key)[Horizon].S)

\* The table of a compartment in the results, and the scenario whose
\* trajectory the tables were built from.
TableOf(c) == results.val[c]

\* C12: a NaN or Inf of a scenario's trajectory at step i is the value of
\* that scenario's column at step i in the table of that compartment; no
\* cell of a scenario column holds a filled or otherwise healed value.
C12_NonFiniteCellsKept ==
    (~results.is_none /\ results.val # <<>> /\ SetKeys # {}) =>
        \A c \in DOMAIN results.val : \A key \in SetKeys :
            /\ column_name(key) \in Range(ColumnNames(TableOf(c)))
            /\ \A i \in 1..Len(Traj(key)) :
                  CellOf(TableOf(c), column_name(key), i) = Traj(key)[i][c]

C12_Witness ==
    /\ ~results.is_none /\ results.val # <<>> /\ SetKeys # {}
    /\ \E key \in SetKeys :
          /\ IsInf(Traj(key)[1].S)
          /\ IsInf(CellOf(TableOf("S"), column_name(key), 1))
          /\ IsNaN(Traj(key)[1].A)
          /\ IsNaN(CellOf(TableOf("A"), column_name(key), 1))
          /\ IsNaN(CellOf(TableOf("S"), column_name(key), Horizon))

\* C13: during run_simulations a slot is None until its scenario's
\* trajectory is complete; a step of the run writes one slot, that of the
\* scenario it ran, once, with the n_steps rows of that scenario, and
\* changes no other slot.
C13_SlotWrittenOnceWhenComplete ==
    [][(pc = "running" /\ n_jobs = 1) =>
          /\ \A key \in Range(todo) : simulation.val[key].is_none
          /\ ~simulation'.is_none
          /\ DOMAIN simulation'.val = DOMAIN simulation.val
          /\ \A key \in DOMAIN simulation.val :
                \/ simulation'.val[key] = simulation.val[key]
                \/ /\ key = Head(todo)
                   /\ simulation.val[key].is_none
                   /\ simulation'.val[key] = Some(simulate_for_given_levels(key))
                   /\ Len(simulation'.val[key].val) = n_steps
                   /\ key \notin Range(todo')]_vars

C13_Witness ==
    /\ pc = "running" /\ n_jobs = 1
    /\ \E key \in DOMAIN simulation.val :
          ~simulation.val[key].is_none /\ Len(simulation.val[key].val) = Horizon
    /\ \E key \in DOMAIN simulation.val : simulation.val[key].is_none

PreconditionErrors == {RuntimeErrorNoForecast, RuntimeErrorNoSimulation}

\* C15: generate_result called while the engine holds no trajectories (after
\* forecast(), before run_simulations()) raises an error whose message names
\* the precondition and leaves the results of the engine and of the Model
\* unset.
C15_GenerateResultBeforeRun ==
    [][(simulation_engine /\ simulation.is_none /\ Model_generate_result) =>
          /\ raised' \in PreconditionErrors
          /\ results'.is_none
          /\ model_results'.is_none]_vars

\* A cell that is +Inf or -Inf: a number, or the logit of 0 or of 1.
IsInfCell(cell) ==
    IF IsLogit(cell) THEN cell.logit_of \in {Z(0), Z(1)} ELSE IsInf(cell)

\* C16, as stated: the derived table has no NaN and no +/-Inf in any column.
C16_NoNaNNoInf ==
    ~derived.is_none =>
        \A c \in DOMAIN derived.val : \A t \in Rows :
            ~IsNA(derived.val[c][t]) /\ ~IsInfCell(derived.val[c][t])

\* C16, amended: the derived table has no NaN in any column and no +/-Inf in
\* any column other than R0; R0 = alpha / (beta + gamma) is computed from the
\* unclipped rates and is +/-Inf in a row where beta + gamma = 0 and
\* alpha # 0.
C16_NoNaNAndInfOnlyInR0 ==
    ~derived.is_none =>
        \A c \in DOMAIN derived.val : \A t \in Rows :
            /\ ~IsNA(derived.val[c][t])
            /\ c # "R0" => ~IsInfCell(derived.val[c][t])

\* A derived table with a row where I = 0 and a row where R0 is infinite.
C16_Witness ==
    /\ ~derived.is_none
    /\ \E t \in Rows : derived.val.I[t] = Z(0)
    /\ \E t \in Rows : IsInf(derived.val.R0[t])

\* x lies in [epsilon, 1 - epsilon].
InClipInterval(x) ==
    \/ x = Epsilon
    \/ x = OneMinusEpsilon
    \/ IsFinite(x) /\ RLt(Z(0), x) /\ RLt(x, Z(1))

\* The rate columns of the derived table.
RateColumns == Range(DERIVED_RATIOS) \cap DOMAIN derived.val

\* C17, as stated: in every row of the derived table every rate alpha, beta,
\* gamma (and delta with vaccination) lies in [epsilon, 1 - epsilon].
C17_RatesInClipInterval ==
    ~derived.is_none =>
        \A c \in RateColumns : \A t \in Rows : InClipInterval(derived.val[c][t])

\* C17, amended: every rate lies in [epsilon, 1 - epsilon], except that it is
\* 0 in the rows before the first row where the rate is defined (a rate is
\* undefined where its quotient is NaN or +/-Inf): the clip keeps NaN, the
\* forward fill has nothing to copy into those rows, and the zero fill puts
\* 0 there.
C17_RatesInClipIntervalOrLeadingZero ==
    ~derived.is_none =>
        \A c \in RateColumns : \A t \in Rows :
            \/ InClipInterval(derived.val[c][t])
            \/ \A u \in 1..t : derived.val[c][u] = Z(0)

\* A table with vaccination where a rate is 0 in its first row and in the
\* interval in its last, and where the clip has moved a rate to epsilon.
C17_Witness ==
    /\ ~derived.is_none
    /\ "delta" \in RateColumns
    /\ \E c \in RateColumns :
          /\ derived.val[c][1] = Z(0)
          /\ InClipInterval(derived.val[c][MaxRows])
    /\ \E c \in RateColumns : \E t \in Rows : derived.val[c][t] = Epsilon

\* The table derived from the observations in a given mode.
DerivedIn(mode) ==
    feature_engineering(ObservationTable(raw.val, mode), mode, raw.val.RECOVERY_LAG)

CompartmentTotal(data, t) ==
    LET sird == RAdd(RAdd(data.S[t], data.I[t]), RAdd(data.R[t], data.D[t]))
    IN  IF "V" \in DOMAIN data THEN RAdd(sird, data.V[t]) ELSE sird

\* C19, as stated: at the last row of the derived table N = S + I + R + D
\* (+ V with vaccination) holds exactly, in cumulative and in incidence mode.
C19_ConservationAtLastRow ==
    ~derived.is_none =>
        derived.val.N[MaxRows] = CompartmentTotal(derived.val, MaxRows)

\* C shifted by k rows, 0 where the history is missing.
Cshift(C, t, k) == IF t > k THEN C[t - k] ELSE Z(0)

\* R by fractional-lag interpolation: with L0 = floor(L), frac = L - L0,
\* R(t) = (1 - frac) * Cshift(t, L0) + frac * Cshift(t, L0 + 1) - D(t),
\* clipped at 0.
FractionalLagR(C, D, L) ==
    LET L0 == L[1] \div L[2]
        frac == RSub(L, Z(L0))
    IN  [t \in 1..Len(C) |->
            ClipLower0(RSub(RAdd(RMul(RSub(Z(1), frac), Cshift(C, t, L0)),
                                 RMul(frac, Cshift(C, t, L0 + 1))),
                            D[t]))]

\* C20, as stated: get_recovery_lag is positive for every frequency, is
\* 14/30 for monthly and 14/365 for annual data, not an integer number of
\* periods, and the derivation uses that fractional value: R of the derived
\* table is the fractional-lag interpolation of the cumulative cases.
C20_FractionalLagUsed ==
    /\ \A f \in Frequencies : RLt(Z(0), get_recovery_lag(f))
    /\ get_recovery_lag("ME") = Q(14, 30)
    /\ get_recovery_lag("YE") = Q(14, 365)
    /\ (~derived.is_none /\ raw.val.frequency \in {"ME", "YE"}) =>
          derived.val.R = FractionalLagR(derived.val.C, derived.val.D,
                                         get_recovery_lag(raw.val.frequency))

\* C21, as stated: validate_data raises when the table has fewer rows than
\* get_min_observations of the handler, and accepts an evenly spaced table
\* with a DatetimeIndex and at least that many rows, for every handler.
C21_ValidateEnforcesMinObservations ==
    ~validation.is_none =>
        LET v == validation.val
        IN  /\ v.table.rows < get_min_observations(v.frequency) =>
                  v.outcome # Accepted
            /\ ( /\ v.table.datetime_index
                 /\ v.table.evenly_spaced
                 /\ v.table.rows >= get_min_observations(v.frequency) ) =>
                  v.outcome = Accepted

\* The input of the container breaks a precondition of the derivation.
BadContainerInput ==
    \/ raw.val.mode \notin Modes
    \/ ~(RequiredColumns(raw.val.mode) \subseteq DOMAIN RawTable(raw.val))

C24_RInterpolatedAndNonNegative ==
    ~derived.is_none =>
        /\ derived.val.R = FractionalLagR(CumSum(raw.val.I), raw.val.D,
                                          get_recovery_lag(raw.val.frequency))
        /\ \A t \in Rows : RLe(Z(0), derived.val.R[t])

\* C25, as stated: smoothing replaces each raw column by its trailing moving
\* average of length window and drops exactly the first window - 1 rows: the
\* n-row table yields n - window + 1 rows, the first of them the average of
\* the first window raw rows.
C25_SmoothingDropsIncompleteWindows ==
    ~derived.is_none =>
        \A c \in DOMAIN RawTable(raw.val) :
            /\ Len(derived.val[c]) = MaxRawRows - raw.val.window + 1
            /\ derived.val[c][1] =
                   RDiv(SumSeq(SubSeq(RawTable(raw.val)[c], 1, raw.val.window)),
                        Z(raw.val.window))

\* The column of the period differences of a compartment.
DifferenceOf == [C |-> "dC", A |-> "dA", S |-> "dS", I |-> "dI", R |-> "dR", D |-> "dD"]

\* C26: in the derived table, for every X in {C, A, S, I, R, D} and every
\* row t with a successor, dX(t) = X(t+1) - X(t); except that in incidence
\* mode dC(t) = I(t) in every row.
C26_DifferencesLookForward ==
    ~derived.is_none =>
        \A X \in DOMAIN DifferenceOf :
            IF X = "C" /\ raw.val.mode = "incidence"
            THEN derived.val.dC = derived.val.I
            ELSE \A t \in 1..(MaxRows - 1) :
                    derived.val[DifferenceOf[X]][t] =
                        RSub(derived.val[X][t + 1], derived.val[X][t])

\* An incidence-mode table whose cases change from row to row, so that dC,
\* dI and the change of C are three different columns, and a cumulative one
\* with the same cases.
C26_Witness ==
    /\ ~derived.is_none
    /\ raw.val.I[1] # raw.val.I[2]
    /\ raw.val.I[2] # raw.val.I[MaxRows]
    /\ \/ /\ raw.val.mode = "incidence"
          /\ derived.val.dC[1] = raw.val.I[1]
          /\ derived.val.dC[1] # RSub(derived.val.C[2], derived.val.C[1])
       \/ /\ raw.val.mode = "cumulative"
          /\ derived.val.dC[1] = raw.val.I[2]

\* C27: where cumulative V decreases from row t to row t + 1, dV(t) = 0, and
\* dV is negative in no row; where C (in cumulative mode, where it is given)
\* or D decreases from row t to row t + 1, dC(t) or dD(t) is that negative
\* change.
C27_OnlyVaccinationFlowClipped ==
    ~derived.is_none =>
        \A data \in {derived.val} :
            /\ \A t \in Rows : RLe(Z(0), data.dV[t])
            /\ \A t \in 1..(MaxRows - 1) :
                  /\ RLt(data.V[t + 1], data.V[t]) => data.dV[t] = Z(0)
                  /\ RLt(data.D[t + 1], data.D[t]) =>
                        /\ data.dD[t] = RSub(data.D[t + 1], data.D[t])
                        /\ RLt(data.dD[t], Z(0))
                  /\ (raw.val.mode = "cumulative" /\ RLt(data.C[t + 1], data.C[t])) =>
                        /\ data.dC[t] = RSub(data.C[t + 1], data.C[t])
                        /\ RLt(data.dC[t], Z(0))

\* A cumulative-mode table where V, C and D all decrease after the first
\* row: dV is 0 there, dC and dD are -1.
C27_Witness ==
    /\ ~derived.is_none
    /\ raw.val.mode = "cumulative"
    /\ RLt(derived.val.V[2], derived.val.V[1])
    /\ derived.val.dV[1] = Z(0)
    /\ derived.val.dC[1] = Z(-1)
    /\ derived.val.dD[1] = Z(-1)

\* The logit column of a rate column.
LogitOf == [alpha |-> "logit_alpha", beta |-> "logit_beta",
            gamma |-> "logit_gamma", delta |-> "logit_delta"]

\* C28, as stated: in every row and for every active rate r the stored logit
\* column is ln(r / (1 - r)) of the rate stored in the same row, also in the
\* rows that were forward-filled or zero-filled.
C28_LogitOfStoredRate ==
    ~derived.is_none =>
        \A r \in RateColumns : \A t \in Rows :
            derived.val[LogitOf[r]][t] = logit_function(derived.val[r][t])

\* C28, amended: the stored logit is the logit of the stored rate in every
\* row from the first row where the rate is defined on (forward-filled rows
\* included); in the zero-filled rows before it both the rate and its logit
\* are 0, and 0 is not the logit of 0.
C28_LogitOfStoredRateOrBothZero ==
    ~derived.is_none =>
        \A r \in RateColumns : \A t \in Rows :
            \/ derived.val[LogitOf[r]][t] = logit_function(derived.val[r][t])
            \/ \A u \in 1..t : /\ derived.val[r][u] = Z(0)
                               /\ derived.val[LogitOf[r]][u] = LogitZero

\* A rate that is zero-filled in row 1 and defined later, with its logit 0
\* in row 1 and the logit of the rate in the last row.
C28_Witness ==
    /\ ~derived.is_none
    /\ \E r \in RateColumns :
          /\ derived.val[r][1] = Z(0)
          /\ derived.val[LogitOf[r]][1] = LogitZero
          /\ InClipInterval(derived.val[r][MaxRows])
          /\ derived.val[LogitOf[r]][MaxRows] = logit_function(derived.val[r][MaxRows])

\* The backend's forecast of rate r at level l, back in rate space.
BackendSeries(r, l) ==
    LET part == CHOOSE p \in 1..Len(BackendParts) : BackendParts[p] = l
        array == forecasted_logit_ratios_tuple_arrays.val[part]
    IN  [t \in 1..Len(array) |-> logistic_function(array[t][RateIndex(r)])]

\* C29: after a forecast, the box holds under every active rate r and
\* every level l the inverse logit of the backend's level-l forecast of
\* rate r itself.
C29_BoxHoldsOwnRateAndLevel ==
    (~forecasted_logit_ratios_tuple_arrays.is_none /\ raised = "") =>
        \A r \in Range(ActiveRates) : \A l \in Range(FORECASTING_LEVELS) :
            /\ r \in DOMAIN forecasting_box
            /\ forecasting_box[r][l] = BackendSeries(r, l)

\* The results the engine generates from the model's current forecast.
ResultsOfCurrentForecast ==
    LET sim == run_simulations(ScenarioKeys, create_simulation_box)
    IN  [c \in Range(ActiveCompartments) |->
            AddCentralTendencies(
                ScenarioColumns(sim, ScenarioKeys, c, n_steps), n_steps)]

\* C30: whenever Model.results is set, it was generated from the model's
\* current forecast; results of an earlier forecast are not exposed once
\* forecast() has been called again.  (The empty Box a failed
\* generate_result leaves in the engine holds no results and is not
\* counted.)
C30_ResultsFromCurrentForecast ==
    (~model_results.is_none /\ model_results.val # <<>>) =>
        model_results.val = ResultsOfCurrentForecast

====
